---- MODULE Spec2Model ----
(***************************************************************************)
(* State-machine model of the JA Assure question-answering pipeline:       *)
(* QueryParser (conversation history, parse), SmartQueryExecutor,          *)
(* format_answer and the fallback cascade of handle_query.                 *)
(*                                                                         *)
(* Python strings are TLA+ strings, handled character by character with    *)
(* Len, SubSeq and \o.  Python None is the value None below.  A dict is a  *)
(* sequence of <<key, value>> pairs in insertion order.  Similarity scores *)
(* are integers in hundredths (0.85 is 85).                                *)
(***************************************************************************)
EXTENDS Integers, Sequences, FiniteSets, TLC

(***************************************************************************)
(* Bounds of the model.                                                    *)
(***************************************************************************)
MaxRequests == 2
MaxCalls == 7
MaxParses == 2
MaxTexts == 4
MaxBatchSize == 2
MaxRetriesArg == 3
MaxChunks == 33

(***************************************************************************)
(* Python values and string primitives.                                    *)
(***************************************************************************)
None == "<None>"

\* the JSON value false where a string is expected
JSON_FALSE == "<false>"

\* Python truthiness of an optional string
Truthy(v) == v \notin {None, "", JSON_FALSE}

UpperToLower ==
    [A |-> "a", B |-> "b", C |-> "c", D |-> "d", E |-> "e", F |-> "f",
     G |-> "g", H |-> "h", I |-> "i", J |-> "j", K |-> "k", L |-> "l",
     M |-> "m", N |-> "n", O |-> "o", P |-> "p", Q |-> "q", R |-> "r",
     S |-> "s", T |-> "t", U |-> "u", V |-> "v", W |-> "w", X |-> "x",
     Y |-> "y", Z |-> "z"]

LowerChar(c) == IF c \in DOMAIN UpperToLower THEN UpperToLower[c] ELSE c

\* str.lower(), by halves
RECURSIVE Lower(_)
Lower(s) ==
    IF Len(s) <= 1 THEN LowerChar(s)
    ELSE Lower(SubSeq(s, 1, Len(s) \div 2))
             \o Lower(SubSeq(s, Len(s) \div 2 + 1, Len(s)))

UpperChar(c) ==
    IF \E k \in DOMAIN UpperToLower : UpperToLower[k] = c
    THEN CHOOSE k \in DOMAIN UpperToLower : UpperToLower[k] = c
    ELSE c

\* str.upper(), by halves
RECURSIVE Upper(_)
Upper(s) ==
    IF Len(s) <= 1 THEN UpperChar(s)
    ELSE Upper(SubSeq(s, 1, Len(s) \div 2))
             \o Upper(SubSeq(s, Len(s) \div 2 + 1, Len(s)))

\* Python's `sub in s`
Contains(s, sub) ==
    \E i \in 1..(Len(s) - Len(sub) + 1) : SubSeq(s, i, i + Len(sub) - 1) = sub

\* any(w in s for w in words), words a sequence of strings
ContainsAny(s, words) == \E k \in 1..Len(words) : Contains(s, words[k])

IsSpace(c) == c \in {" ", "\n", "\t", "\r"}

\* the least element of a non-empty set of positions
MinOf(S) == CHOOSE j \in S : \A k \in S : j <= k

\* s holds a character that is no whitespace
Inked(s) == \E i \in 1..Len(s) : ~IsSpace(SubSeq(s, i, i))

\* str.lstrip(): from the first character that is no whitespace
LStrip(s) ==
    IF ~Inked(s) THEN ""
    ELSE SubSeq(s,
             CHOOSE i \in 1..Len(s) :
                 /\ ~IsSpace(SubSeq(s, i, i))
                 /\ \A k \in 1..(i - 1) : IsSpace(SubSeq(s, k, k)),
             Len(s))

\* str.rstrip(): up to the last character that is no whitespace
RStrip(s) ==
    IF ~Inked(s) THEN ""
    ELSE SubSeq(s, 1,
             CHOOSE i \in 1..Len(s) :
                 /\ ~IsSpace(SubSeq(s, i, i))
                 /\ \A k \in (i + 1)..Len(s) : IsSpace(SubSeq(s, k, k)))

\* str.strip()
Strip(s) == LStrip(RStrip(s))

\* s[:n]
Prefix(s, n) == SubSeq(s, 1, IF Len(s) < n THEN Len(s) ELSE n)

\* seq[-n:]
LastN(seq, n) ==
    IF Len(seq) <= n THEN seq ELSE SubSeq(seq, Len(seq) - n + 1, Len(seq))

\* str.replace(old, new), leftmost non-overlapping occurrences
RECURSIVE Replace(_, _, _)
Replace(s, old, new) ==
    LET at == {i \in 1..(Len(s) - Len(old) + 1) :
                  SubSeq(s, i, i + Len(old) - 1) = old}
    IN  IF at = {} THEN s
        ELSE SubSeq(s, 1, MinOf(at) - 1) \o new
                 \o Replace(SubSeq(s, MinOf(at) + Len(old), Len(s)), old, new)

(***************************************************************************)
(* QueryParser: conversation history.                                      *)
(***************************************************************************)
HISTORY_CAP == 5
PREVIEW_LEN == 200

\* the dict appended by add_to_history
ParsedTurn(query, parsed, answer) ==
    [query |-> query,
     intent |-> parsed.intent,
     filter_field |-> parsed.filter_field,
     filter_value |-> parsed.filter_value,
     filter_contains |-> parsed.filter_contains,
     target_fields |-> parsed.target_fields,
     output_fields |-> parsed.output_fields,
     understood_question |-> parsed.understood_question,
     answer_preview |-> Prefix(answer, PREVIEW_LEN)]

\* the dict appended by add_raw_to_history
RawTurn(query, answer) ==
    [query |-> query,
     intent |-> "unknown",
     filter_field |-> None,
     filter_value |-> None,
     filter_contains |-> None,
     target_fields |-> <<>>,
     output_fields |-> <<>>,
     understood_question |-> query,
     answer_preview |-> Prefix(answer, PREVIEW_LEN)]

\* a plausible slip: the cap keeps the oldest turns instead of the newest
add_to_history_keep_oldest(hist, query, parsed, answer) ==
    LET h == Append(hist, ParsedTurn(query, parsed, answer))
    IN  IF Len(h) > HISTORY_CAP THEN SubSeq(h, 1, HISTORY_CAP) ELSE h

add_to_history(hist, query, parsed, answer) ==
    LET h == Append(hist, ParsedTurn(query, parsed, answer))
    IN  IF Len(h) > HISTORY_CAP THEN LastN(h, HISTORY_CAP) ELSE h

add_raw_to_history(hist, query, answer) ==
    LET h == Append(hist, RawTurn(query, answer))
    IN  IF Len(h) > HISTORY_CAP THEN LastN(h, HISTORY_CAP) ELSE h

(***************************************************************************)
(* QueryParser: tokenising helpers.                                        *)
(***************************************************************************)
Digits == {"0", "1", "2", "3", "4", "5", "6", "7", "8", "9"}

Whitespace == {" ", "\n", "\t", "\r"}

\* the non-empty pieces of s between characters of delims
Split(s, delims) ==
    LET inside(i) == i >= 1 /\ i <= Len(s) /\ SubSeq(s, i, i) \notin delims
        starts == {i \in 1..Len(s) : inside(i) /\ ~inside(i - 1)}
        ends == {i \in 1..Len(s) : inside(i) /\ ~inside(i + 1)}
        nth(S, k) == CHOOSE i \in S : Cardinality({j \in S : j <= i}) = k
    IN  [k \in 1..Cardinality(starts) |->
            SubSeq(s, nth(starts, k), nth(ends, k))]

\* str.split()
Words(s) == Split(s, Whitespace)

\* the length of the run of digits of s that starts at position i
RECURSIVE DigitRun(_, _)
DigitRun(s, i) ==
    IF i <= Len(s) /\ SubSeq(s, i, i) \in Digits THEN 1 + DigitRun(s, i + 1)
    ELSE 0

\* re.search(r'MYJADEQT\d+', query, re.IGNORECASE): start positions
QuoteIdStarts(query) ==
    {i \in 1..Len(query) :
        /\ i + 8 <= Len(query)
        /\ Lower(SubSeq(query, i, i + 7)) = "myjadeqt"
        /\ SubSeq(query, i + 8, i + 8) \in Digits}

\* match.group().upper(), or None
ExtractQuoteId(query) ==
    LET starts == QuoteIdStarts(query)
    IN  IF starts = {} THEN None
        ELSE LET i == CHOOSE j \in starts : \A k \in starts : j <= k
             IN  Upper(SubSeq(query, i, i + 7 + DigitRun(query, i + 8)))

(***************************************************************************)
(* QueryParser: known entities (the hardcoded lists, which a parser built  *)
(* without metadata uses).                                                 *)
(***************************************************************************)
FALLBACK_PERSONS ==
    <<"Somesh Das", "Rohan Mehta", "Rahul Mehta", "Ankit Verma",
      "Aamir Khan", "Suresh Kumar", "Naveen Iyer", "Kunal Shah",
      "Rakesh Pillai", "Farhan Ali", "Pranav Joshi", "Saad Rahman",
      "Vikram Nair", "Ashwin Patel", "Irfan Malik">>

FALLBACK_BUSINESSES ==
    <<"Ja Assure IN", "FinSecure Money Services", "Mehta Pawn Services",
      "LuxGold Jewellers", "Global Money Exchange", "Secure Pawn Brokers",
      "Rapid FX Money Exchange", "Heritage Gold & Jewels",
      "Heritage Gold and Jewels", "Trust Pawn Brokers", "City FX Exchange",
      "Royal Gems & Jewels", "Royal Gems and Jewels", "Metro FX Exchange",
      "Prime Pawn Services", "Sunrise Jewel House", "Harbor FX Services">>

\* the least index of a non-empty set of indices
FirstIndex(S) == CHOOSE j \in S : \A k \in S : j <= k

\* " ".join(name.lower().split()[:2]) for names of two words or more
PartialName(name) ==
    LET parts == Words(Lower(name))
    IN  IF Len(parts) >= 2 THEN parts[1] \o " " \o parts[2] ELSE None

\* name.lower() of every known name, and the two-word partial of every
\* business name
PERSONS_LOWER ==
    [k \in 1..Len(FALLBACK_PERSONS) |-> Lower(FALLBACK_PERSONS[k])]

BUSINESSES_LOWER ==
    [k \in 1..Len(FALLBACK_BUSINESSES) |-> Lower(FALLBACK_BUSINESSES[k])]

BUSINESS_PARTIALS ==
    [k \in 1..Len(FALLBACK_BUSINESSES) |-> PartialName(FALLBACK_BUSINESSES[k])]

\* the three passes over the names, given query.lower()
EntityIn(query_lower) ==
    LET P == {k \in 1..Len(FALLBACK_PERSONS) :
                Contains(query_lower, PERSONS_LOWER[k])}
        B == {k \in 1..Len(FALLBACK_BUSINESSES) :
                Contains(query_lower, BUSINESSES_LOWER[k])}
        H == {k \in 1..Len(FALLBACK_BUSINESSES) :
                /\ BUSINESS_PARTIALS[k] # None
                /\ Contains(query_lower, BUSINESS_PARTIALS[k])}
    IN  IF P # {} THEN FALLBACK_PERSONS[FirstIndex(P)]
        ELSE IF B # {} THEN FALLBACK_BUSINESSES[FirstIndex(B)]
        ELSE IF H # {} THEN FALLBACK_BUSINESSES[FirstIndex(H)]
        ELSE None

_extract_entity_from_query(query) == EntityIn(Lower(query))

(***************************************************************************)
(* QueryParser: out-of-scope check and follow-up resolution.               *)
(***************************************************************************)
OUT_OF_SCOPE_INDICATORS ==
    <<"singapore", "indonesia", "thailand", "philippines", "vietnam",
      "average", "per year", "annually", "total across all", "predict",
      "forecast", "recommend", "should i", "which is better",
      "compare to industry", "benchmark", "market rate", "credit score",
      "credit rating", "financial rating", "who approved", "underwriter",
      "actuary", "monthly premium", "annual premium", "calculate premium">>

_is_out_of_scope(query) == ContainsAny(Lower(query), OUT_OF_SCOPE_INDICATORS)

OutOfScopeQuery(query) ==
    [intent |-> "out_of_scope",
     target_fields |-> <<>>,
     filter_field |-> None,
     filter_value |-> None,
     filter_contains |-> None,
     quote_id |-> None,
     output_fields |-> <<>>,
     understood_question |-> query,
     raw_query |-> query,
     parse_success |-> FALSE]

followup_patterns ==
    <<"their names", "the names", "give names", "give me names", "list them",
      "show them", "what are they", "who are they", "give me their",
      "show their", "tell me their", "what are those", "which are those",
      "name them", "give the names", "show the names", "list the names",
      "what about their names", "and their names", "names please", "names?">>

FOLLOWUP_MAX_WORDS == 5

_is_followup_reference(hist, query) ==
    IF hist = <<>> THEN FALSE
    ELSE LET query_lower == Strip(Lower(query))
         IN  \/ ContainsAny(query_lower, followup_patterns)
             \/ /\ Len(Words(query_lower)) <= FOLLOWUP_MAX_WORDS
                /\ ContainsAny(query_lower,
                       <<"them", "their", "those", "these", "above", "names">>)

\* a plausible slip: the follow-up takes the last turn's filter_value as its
\* filter_contains
_resolve_followup_swapped(hist, query) ==
    LET last == hist[Len(hist)]
    IN  [intent |-> "list",
         target_fields |-> last.target_fields,
         filter_field |-> last.filter_field,
         filter_value |-> last.filter_contains,
         filter_contains |-> last.filter_value,
         quote_id |-> None,
         output_fields |-> <<"business_name_label">>,
         understood_question |->
             "Follow-up: list names from previous query '" \o last.query \o "'",
         raw_query |-> query,
         parse_success |-> TRUE]

\* a plausible slip: the follow-up copies the oldest turn of the history
_resolve_followup_oldest(hist, query) ==
    LET last == hist[1]
    IN  [intent |-> "list",
         target_fields |-> last.target_fields,
         filter_field |-> last.filter_field,
         filter_value |-> last.filter_value,
         filter_contains |-> last.filter_contains,
         quote_id |-> None,
         output_fields |-> <<"business_name_label">>,
         understood_question |->
             "Follow-up: list names from previous query '" \o last.query \o "'",
         raw_query |-> query,
         parse_success |-> TRUE]

_resolve_followup(hist, query) ==
    LET last == hist[Len(hist)]
    IN  [intent |-> "list",
         target_fields |-> last.target_fields,
         filter_field |-> last.filter_field,
         filter_value |-> last.filter_value,
         filter_contains |-> last.filter_contains,
         quote_id |-> None,
         output_fields |-> <<"business_name_label">>,
         understood_question |->
             "Follow-up: list names from previous query '" \o last.query \o "'",
         raw_query |-> query,
         parse_success |-> TRUE]

(***************************************************************************)
(* QueryParser: deterministic count interceptor.                           *)
(***************************************************************************)
COUNT_TRIGGERS == <<"how many", "count", "number of">>

\* <<phrase, field_name, yes_value, no_value>> in dict order
FEATURE_MAP ==
    <<<<"display window", "do_you_have_display_window_label", "001", "002">>,
      <<"have display window", "do_you_have_display_window_label", "001", "002">>,
      <<"has display window", "do_you_have_display_window_label", "001", "002">>,
      <<"window display", "do_you_have_display_window_label", "001", "002">>,
      <<"wall showcase", "do_you_have_wall_showcase_label", "001", "002">>,
      <<"counter showcase", "do_you_have_counter_showcase_label", "001", "002">>,
      <<"alarm", "do_you_have_alarm_label", "001", "002">>,
      <<"cctv maintenance", "cctv_maintenance_contract_label", "001", "002">>,
      <<"cctv recording", "recording_label", "001", "002">>,
      <<"strong room", "do_you_have_a_strong_room_label", "001", "002">>,
      <<"armoured vehicle", "do_you_use_armoured_vehicle_label", "001", "002">>,
      <<"armed guards", "do_you_use_armed_guards_during_transit_label", "001", "002">>,
      <<"guards at premise", "do_you_use_guards_at_premise_label", "001", "002">>,
      <<"gps tracker", "installed_gps_tracker_in_transit_vehicles_label", "001", "002">>,
      <<"jaguar transit", "usage_of_jaguar_transit_label", "001", "002">>,
      <<"standard operating procedure", "standard_operating_procedure_label", "001", "002">>,
      <<"sop", "standard_operating_procedure_label", "001", "002">>,
      <<"stock records", "do_you_keep_detailed_records_of_stock_movements_label", "001", "002">>,
      <<"detailed records", "do_you_keep_detailed_records_of_stock_movements_label", "001", "002">>,
      <<"shoplifting", "shop_lifting_label", "1", "2">>,
      <<"shop lifting", "shop_lifting_label", "1", "2">>,
      <<"time locking", "time_locking_label", "001", "002">>,
      <<"central monitoring", "central_monitoring_stations_label", "001", "002">>,
      <<"alarm maintenance", "under_maintenance_contract_label", "001", "002">>,
      <<"fidelity guarantee", "fidelity_guarantee_insurance_add_coverage_label", "001", "002">>,
      <<"director house", "director_house_question_label", "001", "002">>,
      <<"background check", "background_checks_for_all_employees_label", "001", "002">>>>

NEGATION_WORDS ==
    <<"don't have", "dont have", "do not have", "without",
      "no ", "not have", "haven't", "lack">>

\* whether the interceptor returns a ParsedQuery (else it returns None)
DeterministicMatch(query) ==
    LET query_lower == Strip(Lower(query))
    IN  /\ ContainsAny(query_lower, COUNT_TRIGGERS)
        /\ \E k \in 1..Len(FEATURE_MAP) : Contains(query_lower, FEATURE_MAP[k][1])

\* a plausible slip: the negated question takes the yes-code and the plain
\* question the no-code
_try_deterministic_count_flipped(query) ==
    LET query_lower == Strip(Lower(query))
        negation == ContainsAny(query_lower, NEGATION_WORDS)
        M == {k \in 1..Len(FEATURE_MAP) : Contains(query_lower, FEATURE_MAP[k][1])}
        e == FEATURE_MAP[FirstIndex(M)]
    IN  [intent |-> "count",
         target_fields |-> <<e[2]>>,
         filter_field |-> e[2],
         filter_value |-> IF negation THEN e[3] ELSE e[4],
         filter_contains |-> None,
         quote_id |-> None,
         output_fields |-> <<"business_name_label">>,
         understood_question |->
             "Count proposals where " \o e[2] \o "="
                 \o (IF ~negation THEN "Yes" ELSE "No"),
         raw_query |-> query,
         parse_success |-> TRUE]

\* the ParsedQuery the interceptor returns when DeterministicMatch holds
_try_deterministic_count(query) ==
    LET query_lower == Strip(Lower(query))
        negation == ContainsAny(query_lower, NEGATION_WORDS)
        M == {k \in 1..Len(FEATURE_MAP) : Contains(query_lower, FEATURE_MAP[k][1])}
        e == FEATURE_MAP[FirstIndex(M)]
    IN  [intent |-> "count",
         target_fields |-> <<e[2]>>,
         filter_field |-> e[2],
         filter_value |-> IF negation THEN e[4] ELSE e[3],
         filter_contains |-> None,
         quote_id |-> None,
         output_fields |-> <<"business_name_label">>,
         understood_question |->
             "Count proposals where " \o e[2] \o "="
                 \o (IF ~negation THEN "Yes" ELSE "No"),
         raw_query |-> query,
         parse_success |-> TRUE]

(***************************************************************************)
(* QueryParser: intent normalisation and keyword fallback.                 *)
(***************************************************************************)
valid_intents == <<"count", "list", "lookup", "compare">>

SeqToSet(seq) == {seq[k] : k \in 1..Len(seq)}

INTENT_DELIMS == {"|", "/", ","} \cup Whitespace

\* a plausible slip: an intent in which no valid token is found is returned
\* as the model wrote it
_normalize_intent_unrecognised(raw_intent, query) ==
    LET parts == Split(raw_intent, INTENT_DELIMS)
        F == {k \in 1..Len(parts) : parts[k] \in SeqToSet(valid_intents)}
    IN  IF F = {} THEN raw_intent ELSE parts[FirstIndex(F)]

\* a plausible slip: of several valid tokens the first is taken, whatever
\* the question says
_normalize_intent_first_found(raw_intent, query) ==
    LET parts == Split(raw_intent, INTENT_DELIMS)
        F == {k \in 1..Len(parts) : parts[k] \in SeqToSet(valid_intents)}
    IN  IF F # {} THEN parts[FirstIndex(F)]
        ELSE IF ContainsAny(Lower(query),
                    <<"how many", "count", "number of", "total">>)
        THEN "count"
        ELSE IF ContainsAny(Lower(query),
                    <<"list", "show", "which", "what are", "give", "name">>)
        THEN "list"
        ELSE IF ContainsAny(Lower(query),
                    <<"highest", "lowest", "maximum", "minimum">>)
        THEN "compare"
        ELSE "lookup"

_normalize_intent(raw_intent, query) ==
    LET query_lower == Lower(query)
        parts == Split(raw_intent, INTENT_DELIMS)
        F == {k \in 1..Len(parts) : parts[k] \in SeqToSet(valid_intents)}
    IN  IF raw_intent \in SeqToSet(valid_intents) THEN raw_intent
        ELSE IF F = {} THEN
            IF ContainsAny(query_lower, <<"how many", "count", "number of", "total">>)
            THEN "count"
            ELSE IF ContainsAny(query_lower,
                        <<"list", "show", "which", "what are", "give", "name">>)
            THEN "list"
            ELSE IF ContainsAny(query_lower,
                        <<"highest", "lowest", "maximum", "minimum">>)
            THEN "compare"
            ELSE "lookup"
        ELSE IF /\ \E k \in F : parts[k] = "count"
                /\ ContainsAny(query_lower,
                       <<"how many", "count", "number of", "total">>)
        THEN "count"
        ELSE IF /\ \E k \in F : parts[k] = "list"
                /\ ContainsAny(query_lower,
                       <<"list", "show", "which", "what are", "names">>)
        THEN "list"
        ELSE parts[FirstIndex(F)]

_fallback_parse(query) ==
    LET query_lower == Lower(query)
    IN  [intent |->
             IF ContainsAny(query_lower, <<"how many", "count", "number of">>)
             THEN "count"
             ELSE IF ContainsAny(query_lower, <<"list", "show", "what are", "which">>)
             THEN "list"
             ELSE IF ContainsAny(query_lower,
                         <<"highest", "lowest", "maximum", "minimum">>)
             THEN "compare"
             ELSE "lookup",
         target_fields |-> <<>>,
         filter_field |-> None,
         filter_value |-> None,
         filter_contains |-> None,
         quote_id |-> ExtractQuoteId(query),
         output_fields |-> <<>>,
         understood_question |-> query,
         raw_query |-> query,
         parse_success |-> FALSE]

(***************************************************************************)
(* QueryParser.parse.  resp is what the language model does when asked:    *)
(* kind "raise" (generate raises), "no_json" (no {...} in the text),       *)
(* "bad_json" (json.loads raises) or "json" with the object's values;      *)
(* Missing is an absent key, NonStr a non-empty JSON value that is not a    *)
(* string (a number, a list) and JSON_FALSE the JSON value false.          *)
(***************************************************************************)
Missing == "<missing>"
NonStr == "<non-string>"

\* dict.get(key, default)
Get(v, default) == IF v = Missing THEN default ELSE v

\* a plausible slip: the context-bleed check is left out
ValidatedContains_unchecked(query, fc, query_entity) ==
    IF query_entity # None THEN query_entity ELSE fc

\* the post-parse validation of filter_contains, query_entity being
\* _extract_entity_from_query(query)
ValidatedContains(query, fc, query_entity) ==
    IF query_entity # None THEN query_entity
    ELSE IF Truthy(fc) /\ ~Contains(Lower(query), Lower(fc)) THEN None
    ELSE fc

\* the points of the try block at which an exception is raised: generate,
\* json.loads, intent.lower() and filter_contains.lower()
LLMParseRaises(resp, query_entity) ==
    \/ resp.kind \in {"raise", "bad_json"}
    \/ /\ resp.kind = "json"
       /\ \/ resp.intent \in {None, NonStr, JSON_FALSE}
          \/ /\ query_entity = None
             /\ Get(resp.filter_contains, None) = NonStr

\* str(v) if v is not None else None; a JSON number or boolean becomes its
\* text
NonStrText == "<text of non-string>"

StrOrNone(v) ==
    IF v = JSON_FALSE THEN "False" ELSE IF v = NonStr THEN NonStrText ELSE v

\* the try block of parse
ParseResponse(query, resp, query_entity) ==
    IF resp.kind = "no_json" \/ LLMParseRaises(resp, query_entity)
    THEN _fallback_parse(query)
    ELSE [intent |->
              _normalize_intent(Strip(Lower(Get(resp.intent, "lookup"))), query),
          target_fields |-> Get(resp.target_fields, <<>>),
          filter_field |-> Get(resp.filter_field, None),
          filter_value |-> StrOrNone(Get(resp.filter_value, None)),
          filter_contains |->
              ValidatedContains(query, Get(resp.filter_contains, None),
                                query_entity),
          quote_id |-> Get(resp.quote_id, None),
          output_fields |-> Get(resp.output_fields, <<>>),
          understood_question |-> Get(resp.understood_question, query),
          raw_query |-> query,
          parse_success |-> TRUE]

\* step 4 of parse: model-assisted parse with post-parse validation
_llm_parse(query, resp) ==
    ParseResponse(query, resp, _extract_entity_from_query(query))

\* a plausible slip: the out-of-scope check runs before the interceptor
ParseStep_scope_first(hist, query) ==
    IF _is_out_of_scope(query) THEN "out_of_scope"
    ELSE IF DeterministicMatch(query) THEN "deterministic"
    ELSE IF _is_followup_reference(hist, query) THEN "followup"
    ELSE "llm"

\* which step of parse decides the question
ParseStep(hist, query) ==
    IF DeterministicMatch(query) THEN "deterministic"
    ELSE IF _is_out_of_scope(query) THEN "out_of_scope"
    ELSE IF _is_followup_reference(hist, query) THEN "followup"
    ELSE "llm"

\* a plausible slip: a well-formed reply of the model is taken before the
\* deterministic steps are tried
parse_model_first(hist, query, resp) ==
    IF resp.kind = "json" /\ resp.intent \in SeqToSet(valid_intents)
    THEN _llm_parse(query, resp)
    ELSE IF DeterministicMatch(query) THEN _try_deterministic_count(query)
    ELSE IF _is_out_of_scope(query) THEN OutOfScopeQuery(query)
    ELSE IF _is_followup_reference(hist, query)
    THEN _resolve_followup(hist, query)
    ELSE _llm_parse(query, resp)

parse(hist, query, resp) ==
    LET step == ParseStep(hist, query)
    IN  IF step = "deterministic" THEN _try_deterministic_count(query)
        ELSE IF step = "out_of_scope" THEN OutOfScopeQuery(query)
        ELSE IF step = "followup" THEN _resolve_followup(hist, query)
        ELSE _llm_parse(query, resp)

(***************************************************************************)
(* Record store: the metadata snapshot that build_index persists, one      *)
(* entry per chunk.  fields holds the raw codes, decoded_fields the labels *)
(* decoded at ingestion plus the two top-level attributes.                 *)
(***************************************************************************)
METADATA ==
    <<[quote_id |-> "MYJADEQT001", section |-> "business_profile",
       text |-> "Proposal MYJADEQT001 - Business Profile:\nBusiness Name: Secure Pawn Brokers\nPerson In Charge: Suresh Kumar",
       fields |-> <<<<"business_name_label", "Secure Pawn Brokers">>,
                    <<"person_in_charge_label", "Suresh Kumar">>,
                    <<"premise_type_label", "001">>>>,
       decoded_fields |-> <<<<"business_name_label", "Secure Pawn Brokers">>,
                            <<"person_in_charge_label", "Suresh Kumar">>,
                            <<"premise_type_label", "Office building">>,
                            <<"risk_location", "George Town, Penang">>,
                            <<"user_name", "Suresh Kumar">>>>,
       risk_location |-> "George Town, Penang", user_name |-> "Suresh Kumar"],
      [quote_id |-> "MYJADEQT001", section |-> "alarm",
       text |-> "Proposal MYJADEQT001 - Alarm:\nAlarm Installed: Yes\nAlarm Brand Name: Bosch",
       fields |-> <<<<"do_you_have_alarm_label", "001">>,
                    <<"alarm_brand_name_label", "Bosch">>>>,
       decoded_fields |-> <<<<"do_you_have_alarm_label", "Yes">>,
                            <<"alarm_brand_name_label", "Bosch">>,
                            <<"risk_location", "George Town, Penang">>,
                            <<"user_name", "Suresh Kumar">>>>,
       risk_location |-> "George Town, Penang", user_name |-> "Suresh Kumar"],
      [quote_id |-> "MYJADEQT003", section |-> "business_profile",
       text |-> "Proposal MYJADEQT003 - Business Profile:\nBusiness Name: Mehta Pawn Services\nPerson In Charge: Rohan Mehta",
       fields |-> <<<<"business_name_label", "Mehta Pawn Services">>,
                    <<"person_in_charge_label", "Rohan Mehta">>,
                    <<"premise_type_label", "002">>>>,
       decoded_fields |-> <<<<"business_name_label", "Mehta Pawn Services">>,
                            <<"person_in_charge_label", "Rohan Mehta">>,
                            <<"premise_type_label", "Shopping centre">>,
                            <<"risk_location", "Johor Bahru, Johor">>,
                            <<"user_name", "Rohan Mehta">>>>,
       risk_location |-> "Johor Bahru, Johor", user_name |-> "Rohan Mehta"],
      [quote_id |-> "MYJADEQT003", section |-> "sum_assured",
       text |-> "Proposal MYJADEQT003 - Sum Assured:\nMaximum Stock In Premises: 50000\nAlarm Installed: Yes",
       fields |-> <<<<"maximum_stock_in_premises_label", "50000">>,
                    <<"do_you_have_alarm_label", "1">>>>,
       decoded_fields |-> <<<<"maximum_stock_in_premises_label", "50000">>,
                            <<"do_you_have_alarm_label", "Yes">>,
                            <<"risk_location", "Johor Bahru, Johor">>,
                            <<"user_name", "Rohan Mehta">>>>,
       risk_location |-> "Johor Bahru, Johor", user_name |-> "Rohan Mehta"]>>

(***************************************************************************)
(* Dicts as sequences of <<key, value>> pairs in insertion order.          *)
(***************************************************************************)
HasKey(d, key) == \E k \in 1..Len(d) : d[k][1] = key

\* dict.update for one pair: overwrite in place, else append
DictSet(d, key, value) ==
    IF HasKey(d, key)
    THEN [k \in 1..Len(d) |-> IF d[k][1] = key THEN <<key, value>> ELSE d[k]]
    ELSE Append(d, <<key, value>>)

RECURSIVE DictUpdate(_, _)
DictUpdate(d, e) ==
    IF e = <<>> THEN d
    ELSE DictUpdate(DictSet(d, e[1][1], e[1][2]), Tail(e))

(***************************************************************************)
(* SmartQueryExecutor: field matching.                                     *)
(***************************************************************************)
EXACT_MATCH_SCORE == 100
CONTAINS_BASE_SCORE == 50
WORD_OVERLAP_SCORE == 10
MIN_MATCH_SCORE == 10

FIELD_NOISE == {"the", "a", "an", "of", "in", "for", "is", "do", "you", "label"}

\* name.lower().replace("_label", "").replace("_", " ")
NormalizeField(name) == Replace(Replace(Lower(name), "_label", ""), "_", " ")

_field_match_score(requested_field, actual_field) ==
    LET req == NormalizeField(requested_field)
        act == NormalizeField(actual_field)
        req_words == SeqToSet(Words(req)) \ FIELD_NOISE
        act_words == SeqToSet(Words(act)) \ FIELD_NOISE
        overlap == Cardinality(req_words \cap act_words)
    IN  IF req = act THEN EXACT_MATCH_SCORE
        ELSE IF Contains(act, req) \/ Contains(req, act)
        THEN CONTAINS_BASE_SCORE
                 + (IF Len(req) <= Len(act) THEN Len(req) ELSE Len(act))
        ELSE IF req_words = {} THEN 0
        ELSE IF overlap > 0 THEN overlap * WORD_OVERLAP_SCORE
        ELSE 0

_get_search_fields(chunk) ==
    IF chunk.decoded_fields # <<>>
    THEN DictUpdate(chunk.fields, chunk.decoded_fields)
    ELSE chunk.fields

\* the scan `if score > best_score` over search_fields: the index of the
\* first field with the highest score, 0 when every score is 0
FirstBest(sc) ==
    LET top == {k \in DOMAIN sc :
                   sc[k] > 0 /\ \A j \in DOMAIN sc : sc[j] <= sc[k]}
    IN  IF top = {} THEN [index |-> 0, score |-> 0]
        ELSE [index |-> FirstIndex(top), score |-> sc[FirstIndex(top)]]

BestField(requested, search_fields) ==
    FirstBest([k \in 1..Len(search_fields) |->
                  _field_match_score(requested, search_fields[k][1])])

\* a result row; absent keys are Missing
EmptyRow ==
    [quote_id |-> Missing, business_name |-> Missing, field |-> Missing,
     value |-> Missing, section |-> Missing, matched_text |-> Missing,
     matched_field |-> Missing, matched_value |-> Missing, numeric |-> Missing]

QueryResult(success, data, count, summary, details) ==
    [success |-> success, data |-> data, count |-> count,
     summary |-> summary, details |-> details]

\* one digit of a decimal numeral
DigitStr(d) == SubSeq("0123456789", d + 1, d + 1)

\* str(n) for a natural number
RECURSIVE NatToStr(_)
NatToStr(n) == IF n < 10 THEN DigitStr(n) ELSE NatToStr(n \div 10) \o DigitStr(n % 10)

\* str.title(): upper-case the first letter of every run of letters
Letters == DOMAIN UpperToLower \cup {UpperToLower[k] : k \in DOMAIN UpperToLower}

\* characters lo..hi of s.title(), by halves
RECURSIVE TitleRange(_, _, _)
TitleRange(s, lo, hi) ==
    IF lo > hi THEN ""
    ELSE IF lo = hi
    THEN LET c == SubSeq(s, lo, lo)
         IN  IF c \notin Letters THEN c
             ELSE IF lo > 1 /\ SubSeq(s, lo - 1, lo - 1) \in Letters
             THEN LowerChar(c)
             ELSE UpperChar(c)
    ELSE TitleRange(s, lo, (lo + hi) \div 2)
             \o TitleRange(s, (lo + hi) \div 2 + 1, hi)

Title(s) == TitleRange(s, 1, Len(s))

\* field.replace('_label', '').replace('_', ' ').title()
FieldLabel(field) == Title(Replace(Replace(field, "_label", ""), "_", " "))

\* "\n".join / ", ".join
RECURSIVE Join(_, _)
Join(sep, items) ==
    IF items = <<>> THEN ""
    ELSE IF Len(items) = 1 THEN items[1]
    ELSE items[1] \o sep \o Join(sep, Tail(items))

(***************************************************************************)
(* SmartQueryExecutor: lookup by quote id.                                 *)
(***************************************************************************)
\* one row per requested field whose best field of search_fields scores >= 10
MatchedRow(quote_id, best, search_fields) ==
    IF best.score >= MIN_MATCH_SCORE /\ best.index # 0
    THEN <<[EmptyRow EXCEPT !.quote_id = quote_id,
                            !.field = search_fields[best.index][1],
                            !.value = search_fields[best.index][2]]>>
    ELSE <<>>

RECURSIVE MatchRows(_, _, _)
MatchRows(quote_id, requested, search_fields) ==
    IF requested = <<>> THEN <<>>
    ELSE MatchedRow(quote_id, BestField(requested[1], search_fields),
                    search_fields)
             \o MatchRows(quote_id, Tail(requested), search_fields)

\* one chunk of the loop: target_fields are tried when nothing is found yet
LookupChunk(parsed, search_fields, results) ==
    IF results = <<>> /\ parsed.target_fields # <<>>
    THEN MatchRows(parsed.quote_id, parsed.target_fields, search_fields)
    ELSE results

\* the loop over self.metadata of _execute_lookup, from chunk k on
RECURSIVE LookupScan(_, _, _)
LookupScan(parsed, k, results) ==
    IF k > Len(METADATA) THEN results
    ELSE IF \/ METADATA[k].quote_id # parsed.quote_id
            \/ _get_search_fields(METADATA[k]) = <<>>
    THEN LookupScan(parsed, k + 1, results)
    ELSE LookupScan(parsed, k + 1,
             LookupChunk(parsed, _get_search_fields(METADATA[k]),
                 results \o MatchRows(parsed.quote_id, parsed.output_fields,
                                      _get_search_fields(METADATA[k]))))

\* keep the first row of every (quote_id, field)
RECURSIVE DedupRows(_, _)
DedupRows(rows, seen) ==
    IF rows = <<>> THEN <<>>
    ELSE LET key == <<rows[1].quote_id, rows[1].field>>
         IN  IF key \in seen THEN DedupRows(Tail(rows), seen)
             ELSE <<rows[1]>> \o DedupRows(Tail(rows), seen \cup {key})

\* a plausible slip: an empty lookup reported the way an empty count is,
\* success with count 0
LookupResult_zero_success(quote_id, unique_results) ==
    QueryResult(TRUE, unique_results, Len(unique_results),
        "Found " \o NatToStr(Len(unique_results)) \o " field(s) for " \o quote_id,
        [k \in 1..Len(unique_results) |->
            FieldLabel(unique_results[k].field) \o ": "
                \o unique_results[k].value])

\* the QueryResult built from the deduplicated rows
LookupResult(quote_id, unique_results) ==
    IF unique_results # <<>>
    THEN QueryResult(TRUE, unique_results, Len(unique_results),
             "Found " \o NatToStr(Len(unique_results)) \o " field(s) for "
                 \o quote_id,
             [k \in 1..Len(unique_results) |->
                 FieldLabel(unique_results[k].field) \o ": "
                     \o unique_results[k].value])
    ELSE QueryResult(FALSE, <<>>, 0,
             "No matching fields found for " \o quote_id, <<>>)

_execute_lookup(parsed) ==
    LookupResult(parsed.quote_id, DedupRows(LookupScan(parsed, 1, <<>>), {}))

(***************************************************************************)
(* SmartQueryExecutor: entity detection and entity lookup.                 *)
(***************************************************************************)
IsNameField(field_name) ==
    \/ Contains(Lower(field_name), "business_name")
    \/ Contains(Lower(field_name), "person_in_charge")

\* the names the executor collects from the record store
KnownNames ==
    UNION {
        (IF Truthy(METADATA[c].user_name) THEN {Strip(METADATA[c].user_name)} ELSE {})
        \cup
        {Strip(_get_search_fields(METADATA[c])[k][2]) :
            k \in {j \in 1..Len(_get_search_fields(METADATA[c])) :
                /\ IsNameField(_get_search_fields(METADATA[c])[j][1])
                /\ Strip(_get_search_fields(METADATA[c])[j][2]) # ""
                /\ Lower(Strip(_get_search_fields(METADATA[c])[j][2]))
                       \notin {"unknown", "none", ""}}}
        : c \in 1..Len(METADATA)}

\* the executor's _extract_entity_from_query: a longest known name that the
\* query contains (names of equal length come in set order), or None
ExecutorEntity(query) ==
    LET hits == {n \in KnownNames : Contains(Lower(query), Lower(n))}
    IN  IF hits = {} THEN None
        ELSE CHOOSE n \in hits : \A m \in hits : Len(m) <= Len(n)

RECURSIVE DataFields(_)
DataFields(fields) ==
    IF fields = <<>> THEN <<>>
    ELSE (IF ~Contains(Lower(fields[1]), "business_name")
             /\ ~Contains(Lower(fields[1]), "person_in_charge")
          THEN <<fields[1]>> ELSE <<>>) \o DataFields(Tail(fields))

_should_entity_lookup(parsed) ==
    /\ DataFields(parsed.output_fields \o parsed.target_fields) # <<>>
    /\ \/ Truthy(parsed.filter_contains)
          /\ ExecutorEntity(parsed.filter_contains) # None
       \/ Truthy(parsed.raw_query) /\ ExecutorEntity(parsed.raw_query) # None

\* first value of fields whose name contains pattern, as a 0/1-element sequence
FieldValueIn(search_fields, pattern) ==
    LET hits == {k \in 1..Len(search_fields) :
                    Contains(Lower(search_fields[k][1]), Lower(pattern))}
    IN  IF hits = {} THEN <<>> ELSE <<search_fields[FirstIndex(hits)][2]>>

_get_field_value(chunk, field_pattern) ==
    LET own == FieldValueIn(_get_search_fields(chunk), field_pattern)
        others == {k \in 1..Len(METADATA) :
                      /\ METADATA[k].quote_id = chunk.quote_id
                      /\ METADATA[k] # chunk
                      /\ FieldValueIn(_get_search_fields(METADATA[k]),
                                      field_pattern) # <<>>}
    IN  IF own # <<>> THEN own[1]
        ELSE IF others # {}
        THEN FieldValueIn(_get_search_fields(METADATA[FirstIndex(others)]),
                          field_pattern)[1]
        ELSE "Unknown"

\* whether the chunk names the searched entity (step 1 of entity lookup)
EntityFound(chunk, search_name) ==
    LET user_name == Strip(Lower(chunk.user_name))
        search_fields == _get_search_fields(chunk)
    IN  \/ Contains(user_name, search_name)
        \/ Contains(search_name, user_name)
        \/ \E k \in 1..Len(search_fields) :
              /\ \/ Contains(Lower(search_fields[k][1]), "person_in_charge")
                 \/ Contains(Lower(search_fields[k][1]), "business_name")
              /\ LET val_lower == Strip(Lower(search_fields[k][2]))
                 IN  \/ Contains(val_lower, search_name)
                     \/ Contains(search_name, val_lower)

\* matched_quotes as <<quote_id, business_name>> pairs, chunks k.. onwards
RECURSIVE MatchedQuotes(_, _, _)
MatchedQuotes(search_name, k, acc) ==
    IF k > Len(METADATA) THEN acc
    ELSE LET chunk == METADATA[k]
         IN  IF ~Truthy(chunk.quote_id) \/ HasKey(acc, chunk.quote_id)
                \/ ~EntityFound(chunk, search_name)
             THEN MatchedQuotes(search_name, k + 1, acc)
             ELSE MatchedQuotes(search_name, k + 1,
                      Append(acc, <<chunk.quote_id,
                                    _get_field_value(chunk, "business_name")>>))

\* the inner loop over output_fields for one chunk
StoreBest(best, search_fields, retrieved) ==
    IF best.score >= MIN_MATCH_SCORE /\ best.index # 0
    THEN DictSet(retrieved, search_fields[best.index][1],
                 search_fields[best.index][2])
    ELSE retrieved

RECURSIVE RetrieveFields(_, _, _)
RetrieveFields(output_fields, search_fields, retrieved) ==
    IF output_fields = <<>> THEN retrieved
    ELSE RetrieveFields(Tail(output_fields), search_fields,
             IF HasKey(retrieved, output_fields[1]) THEN retrieved
             ELSE StoreBest(BestField(output_fields[1], search_fields),
                            search_fields, retrieved))

\* retrieved_fields of one matched quote, chunks k.. onwards
RECURSIVE RetrievedForQuote(_, _, _, _)
RetrievedForQuote(quote_id, output_fields, k, retrieved) ==
    IF k > Len(METADATA) THEN retrieved
    ELSE IF METADATA[k].quote_id # quote_id
    THEN RetrievedForQuote(quote_id, output_fields, k + 1, retrieved)
    ELSE RetrievedForQuote(quote_id, output_fields, k + 1,
             RetrieveFields(output_fields, _get_search_fields(METADATA[k]),
                            retrieved))

\* step 2 of entity lookup: the rows of every matched quote
QuoteRows(qid, bname, retrieved, output_fields) ==
    IF retrieved # <<>>
    THEN [k \in 1..Len(retrieved) |->
             [EmptyRow EXCEPT !.quote_id = qid,
                              !.business_name = bname,
                              !.field = retrieved[k][1],
                              !.value = retrieved[k][2]]]
    ELSE <<[EmptyRow EXCEPT !.quote_id = qid,
                            !.business_name = bname,
                            !.field = Join(", ", output_fields),
                            !.value = "Not found"]>>

RECURSIVE EntityRows(_, _)
EntityRows(matched, output_fields) ==
    IF matched = <<>> THEN <<>>
    ELSE QuoteRows(matched[1][1], matched[1][2],
                   RetrievedForQuote(matched[1][1], output_fields, 1, <<>>),
                   output_fields)
             \o EntityRows(Tail(matched), output_fields)

\* append the items of extra that are not yet in fields
RECURSIVE AppendMissing(_, _)
AppendMissing(fields, extra) ==
    IF extra = <<>> THEN fields
    ELSE AppendMissing(IF extra[1] \in SeqToSet(fields) THEN fields
                       ELSE Append(fields, extra[1]), Tail(extra))

\* str(x) of an optional string, as it is formatted into a message
Str(v) == IF v = None THEN "None" ELSE IF v = JSON_FALSE THEN "False" ELSE v

(***************************************************************************)
(* SmartQueryExecutor: general search.                                     *)
(***************************************************************************)
WordChars == Letters \cup Digits \cup {"_"}

\* the characters of s that are not word characters (regex \W)
NonWordChars(s) == {SubSeq(s, i, i) : i \in 1..Len(s)} \ WordChars

GENERAL_IGNORE_WORDS ==
    {"what", "how", "many", "which", "the", "are", "have", "has", "with",
     "and", "for", "their", "names", "all"}

MIN_WORD_LEN == 3

AllLetters(w) == \A i \in 1..Len(w) : SubSeq(w, i, i) \in Letters

\* keep the items of a sequence that satisfy the general-search word test
RECURSIVE QueryWordsOf(_)
QueryWordsOf(runs) ==
    IF runs = <<>> THEN <<>>
    ELSE (IF AllLetters(runs[1]) /\ Len(runs[1]) >= MIN_WORD_LEN
          THEN <<runs[1]>> ELSE <<>>) \o QueryWordsOf(Tail(runs))

RECURSIVE DropIgnored(_)
DropIgnored(words) ==
    IF words = <<>> THEN <<>>
    ELSE (IF words[1] \in GENERAL_IGNORE_WORDS THEN <<>> ELSE <<words[1]>>)
             \o DropIgnored(Tail(words))

\* re.findall(r'\b[a-zA-Z]{3,}\b', raw_query.lower()) less the ignore words
GeneralSearchTerms(parsed) ==
    (IF Truthy(parsed.filter_contains)
     THEN <<Lower(parsed.filter_contains)>> ELSE <<>>)
    \o DropIgnored(QueryWordsOf(
           Split(Lower(parsed.raw_query),
                 NonWordChars(Lower(parsed.raw_query)))))

\* index of the first field of search_fields that a search term hits, or 0
GeneralHit(search_fields, terms) ==
    LET hits == {k \in 1..Len(search_fields) :
                    \E t \in 1..Len(terms) :
                        \/ Contains(Lower(search_fields[k][2]), terms[t])
                        \/ Contains(Lower(search_fields[k][1]), terms[t])}
    IN  IF hits = {} THEN 0 ELSE FirstIndex(hits)

RowQuoteIds(rows) == {rows[k].quote_id : k \in 1..Len(rows)}

RECURSIVE GeneralScan(_, _, _)
GeneralScan(terms, k, rows) ==
    IF k > Len(METADATA) THEN rows
    ELSE LET chunk == METADATA[k]
             search_fields == _get_search_fields(chunk)
             hit == GeneralHit(search_fields, terms)
         IN  IF ~Truthy(chunk.quote_id) \/ chunk.quote_id \in RowQuoteIds(rows)
                \/ search_fields = <<>> \/ hit = 0
             THEN GeneralScan(terms, k + 1, rows)
             ELSE GeneralScan(terms, k + 1,
                      Append(rows,
                          [EmptyRow EXCEPT
                              !.quote_id = chunk.quote_id,
                              !.business_name = _get_field_value(chunk, "business_name"),
                              !.matched_field = search_fields[hit][1],
                              !.matched_value = search_fields[hit][2]]))

\* f"{business_name} ({quote_id})" for every row
NameDetails(rows) ==
    [k \in 1..Len(rows) |->
        rows[k].business_name \o " (" \o rows[k].quote_id \o ")"]

GeneralResult(matching_data) ==
    IF matching_data # <<>>
    THEN QueryResult(TRUE, matching_data, Len(matching_data),
             "Found " \o NatToStr(Len(matching_data)) \o " matching proposal(s)",
             NameDetails(matching_data))
    ELSE QueryResult(FALSE, <<>>, 0, "No matching data found", <<>>)

_execute_general(parsed) ==
    GeneralResult(GeneralScan(GeneralSearchTerms(parsed), 1, <<>>))

(***************************************************************************)
(* SmartQueryExecutor: entity lookup.                                      *)
(***************************************************************************)
\* the name searched for: filter_contains, else the entity named in the query
EntitySearchName(parsed, extracted) ==
    IF Truthy(parsed.filter_contains)
       /\ Strip(Lower(parsed.filter_contains)) # ""
    THEN Strip(Lower(parsed.filter_contains))
    ELSE IF extracted # None THEN Strip(Lower(extracted))
    ELSE ""

\* output_fields, then filter_field (when it has no value), then target_fields
EntityOutputFields(parsed) ==
    AppendMissing(
        IF /\ Truthy(parsed.filter_field)
           /\ ~Truthy(parsed.filter_value)
           /\ parsed.filter_field \notin SeqToSet(parsed.output_fields)
        THEN Append(parsed.output_fields, parsed.filter_field)
        ELSE parsed.output_fields,
        parsed.target_fields)

\* the QueryResult built from the rows of the matched quotes
EntityResult(parsed, matched_quotes, results) ==
    IF results # <<>>
    THEN QueryResult(TRUE, results, Len(results),
             "Found data for " \o NatToStr(Len(matched_quotes))
                 \o " matching proposal(s)",
             [k \in 1..Len(results) |->
                 results[k].business_name \o " (" \o results[k].quote_id
                     \o "): " \o FieldLabel(results[k].field) \o " = "
                     \o results[k].value])
    ELSE QueryResult(FALSE, <<>>, 0,
             "No matching fields found for '" \o Str(parsed.filter_contains)
                 \o "'", <<>>)

\* steps 1 and 2 for a non-empty search name and output fields
EntitySearch(parsed, matched_quotes, output_fields) ==
    IF matched_quotes = <<>>
    THEN QueryResult(FALSE, <<>>, 0,
             "No proposal found for '" \o Str(parsed.filter_contains) \o "'",
             <<>>)
    ELSE EntityResult(parsed, matched_quotes,
                      EntityRows(matched_quotes, output_fields))

EntityLookupFor(parsed, search_name, output_fields) ==
    IF search_name = "" \/ output_fields = <<>> THEN _execute_general(parsed)
    ELSE EntitySearch(parsed, MatchedQuotes(search_name, 1, <<>>), output_fields)

_execute_entity_lookup(parsed) ==
    EntityLookupFor(parsed,
        EntitySearchName(parsed, ExecutorEntity(parsed.raw_query)),
        EntityOutputFields(parsed))

(***************************************************************************)
(* SmartQueryExecutor: count and list.                                     *)
(***************************************************************************)
YES_CODES == {"yes", "001", "true", "1"}
NO_CODES == {"no", "002", "false", "2", "0"}
MATCHED_TEXT_LEN == 100
MIN_SUBSTRING_LEN == 2

\* the filter_contains test of one chunk
ContainsFilterFound(chunk, search_term) ==
    LET search_fields == _get_search_fields(chunk)
    IN  \/ Contains(Lower(chunk.text), search_term)
        \/ \E k \in 1..Len(search_fields) :
              Contains(Lower(search_fields[k][2]), search_term)
        \/ Truthy(chunk.risk_location)
              /\ Contains(Lower(chunk.risk_location), search_term)
        \/ Truthy(chunk.user_name)
              /\ Contains(Lower(chunk.user_name), search_term)

\* the value test of the filter_field branch
ValueMatches(expected, value_lower) ==
    \/ expected \in YES_CODES /\ value_lower \in YES_CODES
    \/ expected \in NO_CODES /\ value_lower \in NO_CODES
    \/ value_lower = expected
    \/ Len(expected) > MIN_SUBSTRING_LEN /\ Contains(value_lower, expected)

\* <<matched_field, matched_value>> of one chunk, or <<>> when nothing matches
FieldFilterMatch(chunk, filter_key, expected) ==
    LET search_fields == _get_search_fields(chunk)
        hits == {k \in 1..Len(search_fields) :
                    /\ Contains(Replace(Lower(search_fields[k][1]), "_label", ""),
                                filter_key)
                    /\ ValueMatches(expected, Strip(Lower(search_fields[k][2])))}
    IN  IF hits # {} THEN search_fields[FirstIndex(hits)]
        ELSE IF /\ Contains("risk_location", filter_key)
                /\ Contains(Strip(Lower(chunk.risk_location)), expected)
        THEN <<"risk_location", chunk.risk_location>>
        ELSE IF /\ Contains("user_name", filter_key)
                /\ Contains(Strip(Lower(chunk.user_name)), expected)
        THEN <<"user_name", chunk.user_name>>
        ELSE <<>>

\* a plausible slip: the scan does not skip a quote it has already matched
RECURSIVE CountScan_every_chunk(_, _, _)
CountScan_every_chunk(parsed, k, rows) ==
    IF k > Len(METADATA) THEN rows
    ELSE LET chunk == METADATA[k]
             hit == IF Truthy(parsed.filter_contains)
                    THEN ContainsFilterFound(chunk, Lower(parsed.filter_contains))
                    ELSE /\ Truthy(parsed.filter_field)
                         /\ Truthy(parsed.filter_value)
                         /\ <<>> # FieldFilterMatch(chunk,
                                Replace(Lower(parsed.filter_field), "_label", ""),
                                Strip(Lower(parsed.filter_value)))
         IN  IF Truthy(chunk.quote_id) /\ hit
             THEN CountScan_every_chunk(parsed, k + 1,
                      Append(rows, [EmptyRow EXCEPT
                                       !.quote_id = chunk.quote_id]))
             ELSE CountScan_every_chunk(parsed, k + 1, rows)

RECURSIVE CountScan(_, _, _)
CountScan(parsed, k, rows) ==
    IF k > Len(METADATA) THEN rows
    ELSE LET chunk == METADATA[k]
             next == CountScan(parsed, k + 1, rows)
         IN  IF ~Truthy(chunk.quote_id) \/ chunk.quote_id \in RowQuoteIds(rows)
             THEN next
             ELSE IF Truthy(parsed.filter_contains)
             THEN IF ContainsFilterFound(chunk, Lower(parsed.filter_contains))
                  THEN CountScan(parsed, k + 1,
                           Append(rows,
                               [EmptyRow EXCEPT
                                   !.quote_id = chunk.quote_id,
                                   !.business_name =
                                       _get_field_value(chunk, "business_name"),
                                   !.section = chunk.section,
                                   !.matched_text =
                                       Prefix(Lower(chunk.text), MATCHED_TEXT_LEN)]))
                  ELSE next
             ELSE IF Truthy(parsed.filter_field) /\ Truthy(parsed.filter_value)
             THEN LET m == FieldFilterMatch(chunk,
                               Replace(Lower(parsed.filter_field), "_label", ""),
                               Strip(Lower(parsed.filter_value)))
                  IN  IF m # <<>>
                      THEN CountScan(parsed, k + 1,
                               Append(rows,
                                   [EmptyRow EXCEPT
                                       !.quote_id = chunk.quote_id,
                                       !.business_name =
                                           _get_field_value(chunk, "business_name"),
                                       !.field = m[1],
                                       !.value = m[2]]))
                      ELSE next
             ELSE next

\* the QueryResult of a count: count is the number of distinct quote ids
CountResult(matching_data, count) ==
    IF count > 0
    THEN QueryResult(TRUE, matching_data, count,
             NatToStr(count) \o " proposal(s) match the criteria",
             NameDetails(matching_data))
    ELSE QueryResult(TRUE, <<>>, 0, "0 proposals match the criteria", <<>>)

CountOver(matching_data) ==
    CountResult(matching_data, Cardinality(RowQuoteIds(matching_data)))

_execute_count(parsed) == CountOver(CountScan(parsed, 1, <<>>))

\* the count result with its details rewritten for listing
ListResult(result) ==
    IF result.success /\ result.data # <<>>
    THEN [result EXCEPT !.details = NameDetails(result.data)]
    ELSE result

_execute_list(parsed) == ListResult(_execute_count(parsed))

(***************************************************************************)
(* SmartQueryExecutor: compare.                                            *)
(***************************************************************************)
AllDigits(v) == v # "" /\ \A i \in 1..Len(v) : SubSeq(v, i, i) \in Digits

DigitValue(c) == CHOOSE d \in 0..9 : DigitStr(d) = c

RECURSIVE StrToNat(_)
StrToNat(v) ==
    IF Len(v) = 1 THEN DigitValue(v)
    ELSE 10 * StrToNat(SubSeq(v, 1, Len(v) - 1)) + DigitValue(SubSeq(v, Len(v), Len(v)))

\* the cleaned text that _parse_numeric hands to float()
NumericText(value) ==
    Strip(Replace(Replace(Replace(value, ",", ""), "RM", ""), "$", ""))

\* _parse_numeric for unsigned whole amounts: <<n>>, or <<>> for None
_parse_numeric(value) ==
    IF AllDigits(NumericText(value)) THEN <<StrToNat(NumericText(value))>>
    ELSE <<>>

\* the rows one chunk contributes for one target field
RECURSIVE CompareFieldRows(_, _, _)
CompareFieldRows(chunk, target, raw_fields) ==
    IF raw_fields = <<>> THEN <<>>
    ELSE (IF /\ _field_match_score(target, raw_fields[1][1]) >= MIN_MATCH_SCORE
             /\ _parse_numeric(raw_fields[1][2]) # <<>>
          THEN <<[EmptyRow EXCEPT
                     !.quote_id = chunk.quote_id,
                     !.business_name = _get_field_value(chunk, "business_name"),
                     !.field = raw_fields[1][1],
                     !.value = raw_fields[1][2],
                     !.numeric = _parse_numeric(raw_fields[1][2])[1]]>>
          ELSE <<>>) \o CompareFieldRows(chunk, target, Tail(raw_fields))

RECURSIVE CompareTargetRows(_, _)
CompareTargetRows(chunk, targets) ==
    IF targets = <<>> THEN <<>>
    ELSE CompareFieldRows(chunk, targets[1], chunk.fields)
             \o CompareTargetRows(chunk, Tail(targets))

RECURSIVE CompareScan(_, _)
CompareScan(parsed, k) ==
    IF k > Len(METADATA) THEN <<>>
    ELSE (IF Truthy(METADATA[k].quote_id)
          THEN CompareTargetRows(METADATA[k], parsed.target_fields)
          ELSE <<>>) \o CompareScan(parsed, k + 1)

\* whether the question asks for the largest value
IsMaxQuery(raw_query) ==
    ContainsAny(Lower(raw_query), <<"highest", "maximum", "most">>)

\* values_with_data.sort(key=numeric, reverse=is_max)[0] of a stable sort
CompareBest(rows, is_max) ==
    LET ext == {k \in 1..Len(rows) :
                   \A j \in 1..Len(rows) :
                       IF is_max THEN rows[j].numeric <= rows[k].numeric
                       ELSE rows[k].numeric <= rows[j].numeric}
    IN  rows[FirstIndex(ext)]

\* the QueryResult that names the best row
CompareResult(best, is_max) ==
    QueryResult(TRUE, <<best>>, 1,
        "The " \o (IF is_max THEN "highest" ELSE "lowest")
            \o " value is " \o best.value \o " for "
            \o best.business_name \o " (" \o best.quote_id \o ")",
        <<best.business_name \o " (" \o best.quote_id \o "): " \o best.value>>)

CompareOver(values_with_data, is_max) ==
    IF values_with_data # <<>>
    THEN CompareResult(CompareBest(values_with_data, is_max), is_max)
    ELSE QueryResult(FALSE, <<>>, 0, "Could not find comparable values", <<>>)

_execute_compare(parsed) ==
    CompareOver(CompareScan(parsed, 1), IsMaxQuery(parsed.raw_query))

(***************************************************************************)
(* SmartQueryExecutor.execute: routing by intent.                          *)
(***************************************************************************)
\* the handler that execute routes the parsed query to
ExecuteRoute(parsed) ==
    LET intent == Strip(Lower(parsed.intent))
    IN  IF intent = "lookup" /\ Truthy(parsed.quote_id) THEN "lookup"
        ELSE IF intent = "lookup" THEN "entity_lookup"
        ELSE IF ~Truthy(parsed.quote_id) /\ _should_entity_lookup(parsed)
        THEN "entity_lookup"
        ELSE IF intent = "count" THEN "count"
        ELSE IF intent = "list" THEN "list"
        ELSE IF intent = "compare" THEN "compare"
        ELSE "general"

ExecuteVia(route, parsed) ==
    IF route = "lookup" THEN _execute_lookup(parsed)
    ELSE IF route = "entity_lookup" THEN _execute_entity_lookup(parsed)
    ELSE IF route = "count" THEN _execute_count(parsed)
    ELSE IF route = "list" THEN _execute_list(parsed)
    ELSE IF route = "compare" THEN _execute_compare(parsed)
    ELSE _execute_general(parsed)

execute(parsed) == ExecuteVia(ExecuteRoute(parsed), parsed)

(***************************************************************************)
(* format_answer and clean_output.                                         *)
(***************************************************************************)
_EMPTY_SENTINELS == {"", "None", "nan", "0", "-1", "N/A"}

\* _is_empty of a row value (the store holds scalar strings only)
_is_empty(value) ==
    value \in {None, Missing} \/ Strip(value) \in _EMPTY_SENTINELS

\* indices of the rows with a non-empty value
NonEmptyRows(result) ==
    {k \in 1..Len(result.data) :
        k <= Len(result.details) /\ ~_is_empty(result.data[k].value)}

\* "if best_pair and best_score >= 10": the kept row index, as 0 or 1 items
KeptIfGood(best) ==
    IF best.index # 0 /\ best.score >= MIN_MATCH_SCORE THEN <<best.index>>
    ELSE <<>>

\* the row index kept for one output field, as a 0/1-element sequence
BestRow(of, result, rows) ==
    KeptIfGood(FirstBest([k \in rows |->
        _field_match_score(of, Get(result.data[k].field, ""))]))

RECURSIVE KeptRows(_, _, _)
KeptRows(output_fields, result, rows) ==
    IF output_fields = <<>> THEN <<>>
    ELSE BestRow(output_fields[1], result, rows)
             \o KeptRows(Tail(output_fields), result, rows)

\* the indices of a set in increasing order
RECURSIVE SortedIndices(_)
SortedIndices(S) ==
    IF S = {} THEN <<>> ELSE <<FirstIndex(S)>> \o SortedIndices(S \ {FirstIndex(S)})

\* the new QueryResult for the kept row indices
FilteredResult(result, kept) ==
    IF kept = <<>>
    THEN QueryResult(FALSE, <<>>, 0,
             "Data not available in proposal records.", <<>>)
    ELSE QueryResult(TRUE, [k \in 1..Len(kept) |-> result.data[kept[k]]],
             Len(kept), result.summary,
             [k \in 1..Len(kept) |-> result.details[kept[k]]])

\* step 2: the best row per output field, of the non-empty rows
FilterRows(parsed, result, rows) ==
    FilteredResult(result,
        IF parsed.output_fields # <<>> /\ rows # {}
        THEN KeptRows(parsed.output_fields, result, rows)
        ELSE SortedIndices(rows))

_filter_result(parsed, result) ==
    FilterRows(parsed, result, NonEmptyRows(result))

\* "- " before every item, items joined by newlines
BulletList(items) == Join("\n", [k \in 1..Len(items) |-> "- " \o items[k]])

\* seq[:n]
Take(seq, n) == SubSeq(seq, 1, IF Len(seq) < n THEN Len(seq) ELSE n)

NAMES_LIMIT == 20
LIST_LIMIT == 15
FALLBACK_DETAILS_LIMIT == 10

\* the result after the lookup filter of format_answer
LookupFiltered(parsed, result) ==
    IF parsed.intent = "lookup" /\ result.data # <<>> /\ result.details # <<>>
    THEN _filter_result(parsed, result)
    ELSE result

\* whether any(w in query_lower ...) asks for names
WantsNames(raw_query) ==
    ContainsAny(Lower(raw_query),
                <<"name", "names", "which", "list", "who", "what are">>)

\* whether the answer is written without the language model
FormatsDirectly(parsed, count0, result) ==
    \/ parsed.intent \in {"count", "list"} /\ count0 = 0
    \/ ~result.success \/ result.count = 0
    \/ parsed.intent \in {"lookup", "count", "list", "compare"}

\* whether format_answer reaches its language-model call
FormatNeedsLLM(parsed, result) ==
    ~FormatsDirectly(parsed, result.count, LookupFiltered(parsed, result))

\* format_answer from the lookup filter on; count0 is the unfiltered count and
\* llm_out the text the model returns, or None when generate raises
FormatFiltered(llm_out, parsed, count0, result) ==
    IF parsed.intent = "count" /\ count0 = 0
    THEN "0 proposals match the criteria. No records found with the specified condition."
    ELSE IF parsed.intent = "list" /\ count0 = 0
    THEN IF Truthy(parsed.filter_contains)
         THEN "0 proposals found with '" \o parsed.filter_contains
                  \o "' in the records."
         ELSE "0 proposals match the criteria."
    ELSE IF ~result.success \/ result.count = 0
    THEN "Data not available in the proposal records."
    ELSE IF parsed.intent = "lookup" /\ result.count = 1
    THEN (IF Truthy(parsed.quote_id) THEN "For " \o parsed.quote_id \o ": "
          ELSE "")
             \o (IF result.details # <<>> THEN result.details[1]
                 ELSE result.summary)
    ELSE IF parsed.intent = "lookup" /\ result.count > 1
    THEN IF result.details # <<>> THEN BulletList(result.details)
         ELSE result.summary
    ELSE IF parsed.intent = "count"
    THEN IF result.count > 0 /\ result.details # <<>>
            /\ WantsNames(parsed.raw_query)
         THEN IF result.count <= NAMES_LIMIT
              THEN "There are " \o NatToStr(result.count)
                       \o " proposal(s) that match. Here are their names:\n"
                       \o BulletList(Take(result.details, NAMES_LIMIT))
              ELSE "There are " \o NatToStr(result.count)
                       \o " proposal(s) that match. Here are the first 20:\n"
                       \o BulletList(Take(result.details, NAMES_LIMIT))
                       \o "\n... and " \o NatToStr(result.count - NAMES_LIMIT)
                       \o " more."
         ELSE NatToStr(result.count) \o " proposal(s) match the criteria."
    ELSE IF parsed.intent = "list"
    THEN IF result.details # <<>>
         THEN "Found " \o NatToStr(result.count) \o " matching proposal(s):\n"
                  \o BulletList(Take(result.details, LIST_LIMIT))
                  \o (IF result.count > LIST_LIMIT
                      THEN "\n... and " \o NatToStr(result.count - LIST_LIMIT)
                               \o " more."
                      ELSE "")
         ELSE result.summary
    ELSE IF parsed.intent = "compare" THEN result.summary
    ELSE IF llm_out # None THEN Strip(llm_out)
    ELSE IF result.details # <<>>
    THEN result.summary \o "\n"
             \o BulletList(Take(result.details, FALLBACK_DETAILS_LIMIT))
    ELSE result.summary

format_answer(llm_out, parsed, result) ==
    FormatFiltered(llm_out, parsed, result.count,
                   LookupFiltered(parsed, result))

\* one line of clean_output: drop a leading list marker and its whitespace
BULLET_MARKERS == {"-", "*", "+"}

CleanLine(line) ==
    LET t == LStrip(line)
    IN  IF /\ Len(t) >= 2
           /\ SubSeq(t, 1, 1) \in BULLET_MARKERS
           /\ IsSpace(SubSeq(t, 2, 2))
        THEN LStrip(SubSeq(t, 2, Len(t)))
        ELSE line

\* characters lo..hi of re.sub(r" {2,}", " ", s), by halves: a space
\* that follows a space goes
RECURSIVE CollapseRange(_, _, _)
CollapseRange(s, lo, hi) ==
    IF lo > hi THEN ""
    ELSE IF lo = hi
    THEN IF lo > 1 /\ SubSeq(s, lo - 1, lo) = "  " THEN "" ELSE SubSeq(s, lo, lo)
    ELSE CollapseRange(s, lo, (lo + hi) \div 2)
             \o CollapseRange(s, (lo + hi) \div 2 + 1, hi)

CollapseSpaces(s) == CollapseRange(s, 1, Len(s))

\* the lines of a text (split on "\n", empty lines kept)
Lines(s) ==
    LET breaks == {i \in 1..Len(s) : SubSeq(s, i, i) = "\n"}
        nth(k) == IF k = 0 THEN 0
                  ELSE IF k > Cardinality(breaks) THEN Len(s) + 1
                  ELSE CHOOSE i \in breaks :
                           Cardinality({j \in breaks : j <= i}) = k
    IN  [k \in 1..(Cardinality(breaks) + 1) |->
            SubSeq(s, nth(k - 1) + 1, nth(k) - 1)]

\* clean_output on text without HTML, emphasis, code, header, numbered-list or
\* link markup and without blank lines: list markers, space runs and the
\* surrounding whitespace go
clean_output(text) ==
    IF ~Truthy(text) THEN ""
    ELSE LET lines == Lines(text)
         IN  Strip(CollapseSpaces(
                 Join("\n", [k \in 1..Len(lines) |-> CleanLine(lines[k])])))

(***************************************************************************)
(* The pieces of main.py around handle_query.                              *)
(***************************************************************************)
PREDEFINED_SIMILARITY_THRESHOLD == 85
CHUNK_SIMILARITY_THRESHOLD == 50
TOP_K_CHUNKS == 5

REFUSAL_MESSAGE == "Data not available in proposal records."

get_refusal_message == REFUSAL_MESSAGE

OUT_OF_SCOPE_ANSWER ==
    "This question is outside the scope of the proposal database. "
        \o "I can only answer questions about data available in the "
        \o "insurance proposal records."

\* the loaded question/answer cache
QA_PAIRS ==
    <<[question |-> "What does JA Assure cover?",
       answer |-> "JA Assure covers jewellers, pawnbrokers and money changers."],
      [question |-> "How do I renew a proposal?",
       answer |-> "- Contact  your broker to renew."]>>

\* np.argmax: the first index holding the maximum
ArgMax(similarities) ==
    FirstIndex({k \in 1..Len(similarities) :
                   \A j \in 1..Len(similarities) :
                       similarities[j] <= similarities[k]})

\* the acceptance test of the cache with > in place of >=
find_match_strict(similarities, threshold) ==
    IF Len(similarities) = 0 THEN None
    ELSE IF similarities[ArgMax(similarities)] > threshold
    THEN QA_PAIRS[ArgMax(similarities)].answer
    ELSE None

\* similarities[k] is the cosine similarity of the query to cached question k
find_match(similarities, threshold) ==
    IF Len(similarities) = 0 THEN None
    ELSE IF similarities[ArgMax(similarities)] >= threshold
    THEN QA_PAIRS[ArgMax(similarities)].answer
    ELSE None

AGGREGATION_SIGNALS ==
    <<"how many", "count", "total", "average", "sum", "which proposals",
      "list all", "compare", "most common", "percentage", "majority",
      "all proposals", "number of", "how much", "across all", "summarize",
      "aggregate">>

COMPARISON_SIGNALS ==
    <<"highest", "lowest", "maximum", "minimum", "most", "least", "top",
      "bottom", "best", "worst", "greater than", "less than", "more than",
      "fewer than">>

classify_query(query) ==
    LET query_lower == Strip(Lower(query))
    IN  IF ContainsAny(query_lower, AGGREGATION_SIGNALS) THEN "analytical"
        ELSE IF ContainsAny(query_lower, COMPARISON_SIGNALS) THEN "analytical"
        ELSE IF ExtractQuoteId(query) # None THEN "structured"
        ELSE "semantic"

\* QUOTE_ID_PATTERN.search(query), upper-cased
extract_quote_id(query) == ExtractQuoteId(query)

\* the acceptance rule of the smart executor with the parse_success gate dropped
should_use_result_ungated(parsed, result) ==
    \/ parsed.intent \in {"count", "list"}
          /\ (Truthy(parsed.filter_contains) \/ Truthy(parsed.filter_value))
    \/ parsed.intent = "lookup" /\ ~Truthy(parsed.quote_id)
          /\ Truthy(parsed.filter_contains)
    \/ result.success /\ result.count > 0

should_use_result(parsed, result) ==
    /\ parsed.parse_success
    /\ \/ parsed.intent \in {"count", "list"}
             /\ (Truthy(parsed.filter_contains) \/ Truthy(parsed.filter_value))
       \/ parsed.intent = "lookup" /\ ~Truthy(parsed.quote_id)
             /\ Truthy(parsed.filter_contains)
       \/ result.success /\ result.count > 0

\* the threshold test of the retrieval loop with every score let through
BelowThreshold_never(score, threshold) == FALSE

\* "if score < threshold: continue"
BelowThreshold(score, threshold) == score < threshold

\* the retrieval loop over the search hits <<score, idx>>, best first;
\* the result is the sequence of kept chunk indices
RECURSIVE RetrievalLoop(_, _, _, _, _)
RetrievalLoop(hits, threshold, top_k, quote_id_filter, results) ==
    IF hits = <<>> \/ Len(results) >= top_k THEN results
    ELSE LET score == hits[1][1]
             idx == hits[1][2]
             skip == \/ idx = 0
                     \/ BelowThreshold(score, threshold)
                     \/ /\ Truthy(quote_id_filter)
                        /\ METADATA[idx].quote_id # quote_id_filter
         IN  RetrievalLoop(Tail(hits), threshold, top_k, quote_id_filter,
                 IF skip THEN results ELSE Append(results, idx))

\* search is [index_present, hits]; idx 0 stands for the -1 padding of faiss
retrieve_chunks_with_threshold(search, threshold, top_k, quote_id_filter) ==
    IF ~search.index_present THEN <<>>
    ELSE RetrievalLoop(Take(search.hits, top_k * 2), threshold, top_k,
                       quote_id_filter, <<>>)

(***************************************************************************)
(* Inputs of the model: questions, what the language model returns when    *)
(* asked to parse, cache similarities, search hits, generated text.        *)
(***************************************************************************)
Queries ==
    {"how many proposals are in Penang? ",
     "How many proposals don't have alarm?",
     "How many proposals of Suresh Kumar don't have alarm?",
     "What is the cctv brand for MYJADEQT003?",
     "Where is Mehta Pawn Services located?",
     "What is the average premium?"}

JsonResponse(intent, target_fields, filter_contains, quote_id, output_fields) ==
    [kind |-> "json", intent |-> intent, target_fields |-> target_fields,
     filter_field |-> None, filter_value |-> None,
     filter_contains |-> filter_contains, quote_id |-> quote_id,
     output_fields |-> output_fields, understood_question |-> Missing]

Unparsed(kind) ==
    [kind |-> kind, intent |-> Missing, target_fields |-> Missing,
     filter_field |-> Missing, filter_value |-> Missing,
     filter_contains |-> Missing, quote_id |-> Missing,
     output_fields |-> Missing, understood_question |-> Missing]

LLMParseResponses ==
    {Unparsed("raise"),
     JsonResponse("count", <<"risk_location">>, "Penang", None, <<>>),
     JsonResponse("lookup", <<"cctv_brand_label">>, None, "MYJADEQT003",
                  <<"cctv_brand_label">>),
     JsonResponse("lookup", <<"business_name_label">>, None, "MYJADEQT003",
                  <<"business_name_label">>),
     JsonResponse("lookup", <<"claim_history_label">>, None, None, <<>>)}

SimilarityInputs == {<<84, 30>>, <<84, 85>>}

SearchInputs ==
    {[index_present |-> FALSE, hits |-> <<>>],
     [index_present |-> TRUE, hits |-> <<<<49, 4>>, <<10, 2>>, <<0, 0>>>>],
     [index_present |-> TRUE, hits |-> <<<<50, 2>>, <<30, 1>>>>],
     [index_present |-> TRUE, hits |-> <<<<72, 1>>, <<60, 3>>, <<10, 2>>>>]}

GeneratedAnswers == {" - Mehta Pawn Services is  in Johor. "}

LegacyAnswers == {"2 proposals found."}

(***************************************************************************)
(* State.  conversation_history is the field of the one QueryParser that   *)
(* api.py keeps; appended logs every turn ever handed to it.  The rest is  *)
(* the position of handle_query in the request being served (pc, query,    *)
(* parsed, result, search), what it has done so far (tried, calls) and     *)
(* what it gave back (ret).  call_args and call_value are the arguments    *)
(* and the return value of a function exercised on its own, outside a      *)
(* request; handle_query leaves them alone.                                *)
(***************************************************************************)
VARIABLES conversation_history, appended, mark, requests, pc, query,
          similarities, step, parsed, result, search, tried, calls, ret,
          call_args, call_value

vars == <<conversation_history, appended, mark, requests, pc, query,
          similarities, step, parsed, result, search, tried, calls, ret,
          call_args, call_value>>

NoReturn == [kind |-> "none", text |-> "", branch |-> ""]
Raised == [kind |-> "raised", text |-> "", branch |-> ""]
Answer(text, branch) == [kind |-> "answer", text |-> text, branch |-> branch]

Init ==
    /\ conversation_history = <<>>
    /\ appended = <<>>
    /\ mark = 0
    /\ requests = 0
    /\ pc = "idle"
    /\ query = ""
    /\ similarities = <<>>
    /\ step = ""
    /\ parsed = <<>>
    /\ result = <<>>
    /\ search = <<>>
    /\ tried = <<>>
    /\ calls = <<>>
    /\ ret = NoReturn
    /\ call_args = <<>>
    /\ call_value = <<>>

\* entry of handle_query: the state of a fresh request
Enter(q) ==
    /\ pc = "idle"
    /\ requests < MaxRequests
    /\ UNCHANGED <<call_args, call_value>>
    /\ requests' = requests + 1
    /\ query' = Strip(q)
    /\ mark' = Len(appended)
    /\ step' = ""
    /\ parsed' = <<>>
    /\ result' = <<>>
    /\ search' = <<>>
    /\ calls' = <<"embed">>

\* the return of handle_query after a raw turn was recorded
ReturnRaw(answer, returned, branch) ==
    /\ conversation_history' = add_raw_to_history(conversation_history, query', answer)
    /\ appended' = Append(appended, RawTurn(query', answer))
    /\ ret' = Answer(returned, branch)
    /\ pc' = "idle"

\* embed_single raises at line 693, outside any try
EmbedQueryFails(q) ==
    /\ Enter(q)
    /\ similarities' = <<>>
    /\ tried' = <<>>
    /\ ret' = Raised
    /\ pc' = "idle"
    /\ UNCHANGED <<conversation_history, appended, call_args, call_value>>

\* the cache holds a question at least 0.85 similar
FastPathHit(q, sims) ==
    /\ Enter(q)
    /\ Truthy(find_match(sims, PREDEFINED_SIMILARITY_THRESHOLD))
    /\ similarities' = sims
    /\ tried' = <<"predefined">>
    /\ LET predefined_answer == find_match(sims, PREDEFINED_SIMILARITY_THRESHOLD)
       IN  ReturnRaw(predefined_answer, clean_output(predefined_answer),
                     "predefined")

FastPathMiss(q, sims) ==
    /\ Enter(q)
    /\ ~Truthy(find_match(sims, PREDEFINED_SIMILARITY_THRESHOLD))
    /\ similarities' = sims
    /\ tried' = <<"predefined">>
    /\ ret' = NoReturn
    /\ pc' = "parse"
    /\ UNCHANGED <<conversation_history, appended, call_args, call_value>>

\* query_parser.parse(query); r is used only by the model-assisted step
Parse(r) ==
    /\ pc = "parse"
    /\ step' = ParseStep(conversation_history, query)
    /\ parsed' = <<parse(conversation_history, query, r)>>
    /\ calls' = IF step' = "llm" THEN Append(calls, "llm_parse") ELSE calls
    /\ pc' = "execute"
    /\ UNCHANGED <<conversation_history, appended, mark, requests, query,
                   similarities, result, search, tried, ret, call_args,
                   call_value>>

OutOfScope ==
    /\ pc = "execute"
    /\ parsed[1].intent = "out_of_scope"
    /\ tried' = Append(tried, "out_of_scope")
    /\ query' = query
    /\ ReturnRaw(OUT_OF_SCOPE_ANSWER, clean_output(OUT_OF_SCOPE_ANSWER),
                 "out_of_scope")
    /\ UNCHANGED <<mark, requests, similarities, step, parsed, result, search,
                   calls, call_args, call_value>>

\* query_executor.execute(parsed)
Execute ==
    /\ pc = "execute"
    /\ parsed[1].intent # "out_of_scope"
    /\ result' = <<execute(parsed[1])>>
    /\ pc' = "decide"
    /\ UNCHANGED <<conversation_history, appended, mark, requests, query,
                   similarities, step, parsed, search, tried, calls, ret,
                   call_args, call_value>>

\* the return of handle_query after a parsed turn was recorded
ReturnParsed(answer) ==
    /\ conversation_history' =
           add_to_history(conversation_history, query, parsed[1], answer)
    /\ appended' = Append(appended, ParsedTurn(query, parsed[1], answer))
    /\ ret' = Answer(clean_output(answer), "smart_executor")
    /\ pc' = "idle"

\* the result is accepted: format_answer, add_to_history, return
ExecutorAnswers(llm_out) ==
    /\ pc = "decide"
    /\ should_use_result(parsed[1], result[1])
    /\ FormatNeedsLLM(parsed[1], result[1]) \/ llm_out = None
    /\ calls' = IF FormatNeedsLLM(parsed[1], result[1])
                THEN Append(calls, "llm_format") ELSE calls
    /\ ReturnParsed(format_answer(llm_out, parsed[1], result[1]))
    /\ tried' = Append(tried, "smart_executor")
    /\ UNCHANGED <<mark, requests, query, similarities, step, parsed, result,
                   search, call_args, call_value>>

\* the result is not accepted: on to the legacy handlers
ExecutorDeclines ==
    /\ pc = "decide"
    /\ ~should_use_result(parsed[1], result[1])
    /\ tried' = Append(tried, "smart_executor")
    /\ pc' = "legacy"
    /\ UNCHANGED <<conversation_history, appended, mark, requests, query,
                   similarities, step, parsed, result, search, calls, ret,
                   call_args, call_value>>

\* the legacy handlers in the order handle_query calls them
LegacyHandlers(q) ==
    IF classify_query(q) = "analytical"
    THEN <<"analytical_specific", "analytical", "structured", "cross_search">>
    ELSE <<"structured", "cross_search">>

\* handler k is the first to return a non-empty answer.  The handlers
\* (analytical_query_handler, analytical_engine.run, structured_lookup,
\* search_proposals_by_value) read the record store only; what each returns
\* is left open: an answer text, or nothing.
LegacyAnswers_at(k, answer) ==
    /\ pc = "legacy"
    /\ k \in 1..Len(LegacyHandlers(query))
    /\ tried' = tried \o SubSeq(LegacyHandlers(query), 1, k)
    /\ query' = query
    /\ ReturnRaw(answer, clean_output(answer), LegacyHandlers(query)[k])
    /\ UNCHANGED <<mark, requests, similarities, step, parsed, result, search,
                   calls, call_args, call_value>>

\* every legacy handler returns nothing
LegacyDeclines ==
    /\ pc = "legacy"
    /\ tried' = tried \o LegacyHandlers(query)
    /\ pc' = "retrieve"
    /\ UNCHANGED <<conversation_history, appended, mark, requests, query,
                   similarities, step, parsed, result, search, calls, ret,
                   call_args, call_value>>

\* embed_single raises at line 286 inside retrieve_chunks_with_threshold
RetrieveEmbedFails ==
    /\ pc = "retrieve"
    /\ tried' = Append(tried, "semantic")
    /\ calls' = Append(calls, "embed")
    /\ ret' = Raised
    /\ pc' = "idle"
    /\ UNCHANGED <<conversation_history, appended, mark, requests, query,
                   similarities, step, parsed, result, search, call_args,
                   call_value>>

Retrieved(s) ==
    retrieve_chunks_with_threshold(s, CHUNK_SIMILARITY_THRESHOLD, TOP_K_CHUNKS,
                                   extract_quote_id(query))

\* no chunk kept: the refusal is returned at lines 820-824
Refuse(s) ==
    /\ pc = "retrieve"
    /\ Retrieved(s) = <<>>
    /\ search' = <<s>>
    /\ tried' = tried \o <<"semantic", "refused">>
    /\ calls' = IF s.index_present THEN Append(calls, "embed") ELSE calls
    /\ ret' = Answer(get_refusal_message, "refused")
    /\ pc' = "idle"
    /\ UNCHANGED <<conversation_history, appended, mark, requests, query,
                   similarities, step, parsed, result, call_args, call_value>>

\* some chunk kept: the prompt is built from the chunks and the last turns
Retrieve(s) ==
    /\ pc = "retrieve"
    /\ Retrieved(s) # <<>>
    /\ search' = <<s>>
    /\ tried' = Append(tried, "semantic")
    /\ calls' = Append(calls, "embed")
    /\ pc' = "generate"
    /\ UNCHANGED <<conversation_history, appended, mark, requests, query,
                   similarities, step, parsed, result, ret, call_args,
                   call_value>>

\* llm.generate returns raw_answer
Generate(raw_answer) ==
    /\ pc = "generate"
    /\ calls' = Append(calls, "llm_generate")
    /\ query' = query
    /\ ReturnRaw(clean_output(raw_answer), clean_output(raw_answer), "semantic")
    /\ UNCHANGED <<mark, requests, similarities, step, parsed, result, search,
                   tried, call_args, call_value>>

\* llm.generate raises: caught at lines 849-851
GenerateFails ==
    /\ pc = "generate"
    /\ calls' = Append(calls, "llm_generate")
    /\ query' = query
    /\ ReturnRaw(get_refusal_message, get_refusal_message, "semantic")
    /\ UNCHANGED <<mark, requests, similarities, step, parsed, result, search,
                   tried, call_args, call_value>>

Next ==
    \/ \E q \in Queries : EmbedQueryFails(q)
    \/ \E q \in Queries, sims \in SimilarityInputs : FastPathHit(q, sims)
    \/ \E q \in Queries, sims \in SimilarityInputs : FastPathMiss(q, sims)
    \/ \E r \in LLMParseResponses : Parse(r)
    \/ OutOfScope
    \/ Execute
    \/ \E llm_out \in GeneratedAnswers \cup {None} : ExecutorAnswers(llm_out)
    \/ ExecutorDeclines
    \/ \E k \in 1..4, answer \in LegacyAnswers : LegacyAnswers_at(k, answer)
    \/ LegacyDeclines
    \/ RetrieveEmbedFails
    \/ \E s \in SearchInputs : Refuse(s)
    \/ \E s \in SearchInputs : Retrieve(s)
    \/ \E raw_answer \in GeneratedAnswers : Generate(raw_answer)
    \/ GenerateFails

Spec == Init /\ [][Next]_vars

(***************************************************************************)
(* The conversation history on its own: any sequence of add_to_history and *)
(* add_raw_to_history calls on one QueryParser.                            *)
(***************************************************************************)
HistoryQueries == {"list them"}

HistoryAnswers == {"1 proposal(s) match the criteria.", "Data not available in proposal records."}

HistoryParsed ==
    {_try_deterministic_count("How many proposals don't have alarm?")}

AddToHistory(q, p, answer) ==
    /\ Len(appended) < MaxCalls
    /\ conversation_history' = add_to_history(conversation_history, q, p, answer)
    /\ appended' = Append(appended, ParsedTurn(q, p, answer))
    /\ UNCHANGED <<mark, requests, pc, query, similarities, step, parsed,
                   result, search, tried, calls, ret, call_args, call_value>>

AddRawToHistory(q, answer) ==
    /\ Len(appended) < MaxCalls
    /\ conversation_history' = add_raw_to_history(conversation_history, q, answer)
    /\ appended' = Append(appended, RawTurn(q, answer))
    /\ UNCHANGED <<mark, requests, pc, query, similarities, step, parsed,
                   result, search, tried, calls, ret, call_args, call_value>>

NextHistory ==
    \/ \E q \in {"How many proposals don't have alarm?"}, p \in HistoryParsed,
          answer \in HistoryAnswers : AddToHistory(q, p, answer)
    \/ \E q \in HistoryQueries, answer \in HistoryAnswers :
          AddRawToHistory(q, answer)

SpecHistory == Init /\ [][NextHistory]_vars

(***************************************************************************)
(* The parser on its own: parse, then the turn is recorded with the parsed *)
(* filters (add_to_history), without them (add_raw_to_history), or not at  *)
(* all.                                                                    *)
(***************************************************************************)
ParseQueries ==
    {"how many proposals are in Penang?",
     "does Acme Pawn have a strong room?",
     "What is the claim history of Heritage Gold?",
     "How many proposals don't have alarm?",
     "What is the average premium?",
     "list them"}

ParseResponses ==
    {Unparsed("no_json"),
     JsonResponse("count", <<"risk_location">>, "Penang", None, <<>>),
     JsonResponse("count", <<>>, "penang", None, <<>>),
     JsonResponse("lookup", <<"strong_room_label">>, "Acme Pawn", None,
                  <<"strong_room_label">>),
     JsonResponse("lookup", <<>>, JSON_FALSE, None, <<>>),
     JsonResponse("list", <<>>, NonStr, None, <<>>)}

ParseQuestion(q, r) ==
    /\ pc = "idle"
    /\ requests < MaxParses
    /\ requests' = requests + 1
    /\ query' = q
    /\ step' = ParseStep(conversation_history, q)
    /\ parsed' = <<parse(conversation_history, q, r)>>
    /\ calls' = IF step' = "llm" THEN <<"llm_parse">> ELSE <<>>
    /\ pc' = "parsed"
    /\ UNCHANGED <<conversation_history, appended, mark, similarities, result,
                   search, tried, ret, call_args, call_value>>

\* the turn is recorded and handle_query returns: its locals are gone
RecordParsed(answer) ==
    /\ pc = "parsed"
    /\ conversation_history' =
           add_to_history(conversation_history, query, parsed[1], answer)
    /\ appended' = Append(appended, ParsedTurn(query, parsed[1], answer))
    /\ pc' = "idle"
    /\ query' = ""
    /\ step' = ""
    /\ parsed' = <<>>
    /\ calls' = <<>>
    /\ UNCHANGED <<mark, requests, similarities, result, search, tried, ret,
                   call_args, call_value>>

RecordRaw(answer) ==
    /\ pc = "parsed"
    /\ conversation_history' = add_raw_to_history(conversation_history, query, answer)
    /\ appended' = Append(appended, RawTurn(query, answer))
    /\ pc' = "idle"
    /\ query' = ""
    /\ step' = ""
    /\ parsed' = <<>>
    /\ calls' = <<>>
    /\ UNCHANGED <<mark, requests, similarities, result, search, tried, ret,
                   call_args, call_value>>

RecordNothing ==
    /\ pc = "parsed"
    /\ pc' = "idle"
    /\ query' = ""
    /\ step' = ""
    /\ parsed' = <<>>
    /\ calls' = <<>>
    /\ UNCHANGED <<conversation_history, appended, mark, requests,
                   similarities, result, search, tried, ret, call_args,
                   call_value>>

NextParse ==
    \/ \E q \in ParseQueries, r \in ParseResponses : ParseQuestion(q, r)
    \/ \E answer \in {"Data not available in the proposal records."} :
          RecordParsed(answer)
    \/ \E answer \in LegacyAnswers : RecordRaw(answer)
    \/ RecordNothing

SpecParse == Init /\ [][NextParse]_vars

(***************************************************************************)
(* Claims C1 - C4: conversation history and parse.                         *)
(***************************************************************************)

\* C1: after any sequence of add_to_history and add_raw_to_history calls,
\* conversation_history holds at most 5 turns, and they are exactly the most
\* recently appended turns in append order (the oldest turn is evicted).
C1_HistoryHoldsNewestFive ==
    /\ Len(conversation_history) <= 5
    /\ Len(conversation_history) = MinOf({Len(appended), 5})
    /\ \A k \in 1..Len(conversation_history) :
          conversation_history[k] =
              appended[Len(appended) - Len(conversation_history) + k]

\* more than five turns were appended, of both kinds, and an eviction happened
C1_Witness ==
    /\ Len(appended) > 5
    /\ Len(conversation_history) = 5
    /\ conversation_history[1] # appended[1]
    /\ \E k \in 1..5 : conversation_history[k].intent = "unknown"
    /\ \E k \in 1..5 : conversation_history[k].intent = "count"

\* C2 (as stated): every call of handle_query that returns an answer appends
\* exactly one turn to the conversation history, whichever branch produced
\* the answer, the refusal included; a turn from a branch that did not use a
\* ParsedQuery carries null filters.
C2_EveryAnswerAppendsOneTurn ==
    (pc = "idle" /\ ret.kind = "answer") =>
        /\ Len(appended) = mark + 1
        /\ ret.branch # "smart_executor" =>
              /\ appended[Len(appended)].filter_field = None
              /\ appended[Len(appended)].filter_value = None
              /\ appended[Len(appended)].filter_contains = None

\* C3 (as stated): when parse resolves a question through the model-assisted
\* step and the question names no known entity, the returned filter_contains
\* is null or a string that occurs in the current question.
C3_FilterOccursVerbatim ==
    (pc = "parsed" /\ step = "llm" /\ _extract_entity_from_query(query) = None) =>
        \/ parsed[1].filter_contains = None
        \/ Contains(query, parsed[1].filter_contains)

\* C3 (amended): when parse resolves a question through the model-assisted
\* step and the question names no known entity, the returned filter_contains
\* is null, a falsy value the model returned for it, or a string that occurs
\* in the current question when letter case is ignored; and after a turn with
\* filter_contains = "Acme Pawn", the question "how many proposals are in
\* Penang?" never yields filter_contains = "Acme Pawn".
C3_FilterOccursIgnoringCase ==
    /\ (pc = "parsed" /\ step = "llm"
            /\ _extract_entity_from_query(query) = None) =>
          \/ parsed[1].filter_contains \in {None, "", JSON_FALSE}
          \/ Contains(Lower(query), Lower(parsed[1].filter_contains))
    /\ (pc = "parsed" /\ query = "how many proposals are in Penang?") =>
          parsed[1].filter_contains # "Acme Pawn"

\* the Penang question was parsed by the model-assisted step right after a
\* turn whose filter_contains is "Acme Pawn", and kept the model's "Penang"
C3_Witness ==
    /\ pc = "parsed"
    /\ step = "llm"
    /\ query = "how many proposals are in Penang?"
    /\ _extract_entity_from_query(query) = None
    /\ conversation_history # <<>>
    /\ conversation_history[Len(conversation_history)].filter_contains = "Acme Pawn"
    /\ parsed[1].filter_contains = "Penang"

\* C4 (as stated): for every ParsedQuery returned by parse, on every parse
\* path and after any conversation history, filter_contains is either null
\* or a literal substring of that ParsedQuery's raw_query.
C4_FilterIsSubstringOfRawQuery ==
    pc = "parsed" =>
        \/ parsed[1].filter_contains = None
        \/ Contains(parsed[1].raw_query, parsed[1].filter_contains)

\* C4 (amended): for every ParsedQuery returned by parse, filter_contains is
\* null, or a falsy value the model returned, or a string occurring in
\* raw_query when letter case is ignored, or the stored name of the known
\* entity that raw_query names, or (follow-up resolution) the
\* filter_contains of the last turn of the history.
C4_FilterComesFromQueryEntityOrLastTurn ==
    pc = "parsed" =>
        \/ parsed[1].filter_contains \in {None, "", JSON_FALSE}
        \/ Contains(Lower(parsed[1].raw_query), Lower(parsed[1].filter_contains))
        \/ parsed[1].filter_contains = _extract_entity_from_query(parsed[1].raw_query)
        \/ /\ step = "followup"
           /\ parsed[1].filter_contains =
                  conversation_history[Len(conversation_history)].filter_contains

\* a follow-up was resolved after a turn that carried a filter_value and no
\* filter_contains
C4_Witness ==
    /\ pc = "parsed"
    /\ step = "followup"
    /\ conversation_history[Len(conversation_history)].filter_value = "002"
    /\ parsed[1].filter_value = "002"
    /\ parsed[1].filter_contains = None


(***************************************************************************)
(* Claims C5 - C10: handle_query.                                          *)
(***************************************************************************)

C6_AcceptedWheneverFilterEntityOrMatch ==
    (result # <<>> /\ Len(tried) >= 2 /\ tried[2] = "smart_executor") =>
        ((\/ /\ parsed[1].intent \in {"count", "list"}
             /\ \/ Truthy(parsed[1].filter_contains)
                \/ Truthy(parsed[1].filter_value)
          \/ parsed[1].intent = "lookup" /\ ~Truthy(parsed[1].quote_id)
          \/ result[1].count >= 1)
         <=> (Len(tried) = 2 /\ pc = "idle" /\ ret.branch = "smart_executor"))

\* C6 (amended): handle_query takes the smart executor's result as the
\* answer exactly when the parse succeeded (parse_success, which the
\* keyword fallback never sets) and (a) the intent is count or list and
\* filter_contains or filter_value is set, or (b) the intent is lookup
\* without a record id and filter_contains is set, or (c) the result is
\* successful with at least one match; otherwise it goes on to the legacy
\* handlers.
C6_AcceptedOnlyAfterSuccessfulParse ==
    (result # <<>> /\ Len(tried) >= 2 /\ tried[2] = "smart_executor") =>
        ((/\ parsed[1].parse_success
          /\ \/ /\ parsed[1].intent \in {"count", "list"}
                /\ \/ Truthy(parsed[1].filter_contains)
                   \/ Truthy(parsed[1].filter_value)
             \/ /\ parsed[1].intent = "lookup"
                /\ ~Truthy(parsed[1].quote_id)
                /\ Truthy(parsed[1].filter_contains)
             \/ result[1].success /\ result[1].count > 0)
         <=> (Len(tried) = 2 /\ pc = "idle" /\ ret.branch = "smart_executor"))

\* the keyword fallback parsed the question, the executor found matches, and
\* handle_query went on to the legacy handlers all the same
C6_Witness ==
    /\ pc = "legacy"
    /\ result # <<>>
    /\ ~parsed[1].parse_success
    /\ result[1].success
    /\ result[1].count >= 1
    /\ tried = <<"predefined", "smart_executor">>

\* C7 (as stated): when a count query with a filter matches no record, the
\* executor returns success=true with count=0 and handle_query answers from
\* the executor branch with the "0 proposals match" text.
C7_ZeroCountAnsweredByExecutor ==
    (/\ result # <<>>
     /\ parsed[1].intent = "count"
     /\ Truthy(parsed[1].filter_contains) \/ Truthy(parsed[1].filter_value)
     /\ _execute_count(parsed[1]).count = 0) =>
        /\ result[1].success
        /\ result[1].count = 0
        /\ pc # "decide" =>
              /\ pc = "idle"
              /\ ret.branch = "smart_executor"
              /\ Prefix(ret.text, 17) = "0 proposals match"

\* C8: when a lookup by record id finds, in that record, no field scoring
\* >= 10 against any requested field, the executor returns success=false
\* with count=0 and handle_query does not answer from the executor branch
\* but proceeds to the legacy handlers, vector retrieval and refusal.
C8_FailedLookupFallsThrough ==
    (/\ result # <<>>
     /\ parsed[1].intent = "lookup"
     /\ Truthy(parsed[1].quote_id)
     /\ \A k \in 1..Len(METADATA) :
           METADATA[k].quote_id = parsed[1].quote_id =>
               \A f \in 1..Len(_get_search_fields(METADATA[k])) :
                   \A r \in SeqToSet(parsed[1].output_fields)
                                \cup SeqToSet(parsed[1].target_fields) :
                       _field_match_score(r,
                           _get_search_fields(METADATA[k])[f][1]) < 10) =>
        /\ ~result[1].success
        /\ result[1].count = 0
        /\ ret.branch # "smart_executor"
        /\ pc # "decide" =>
              /\ Len(tried) >= 2
              /\ tried[2] = "smart_executor"
              /\ pc = "idle" =>
                    \/ ret.kind = "raised"
                    \/ ret.branch \in {"analytical_specific", "analytical",
                                       "structured", "cross_search",
                                       "semantic", "refused"}

\* the record exists, none of its fields matches the requested one, and
\* handle_query has moved on to the legacy handlers
C8_Witness ==
    /\ pc = "legacy"
    /\ parsed[1].intent = "lookup"
    /\ parsed[1].quote_id = "MYJADEQT003"
    /\ parsed[1].output_fields = <<"cctv_brand_label">>
    /\ \E k \in 1..Len(METADATA) : METADATA[k].quote_id = "MYJADEQT003"
    /\ ~result[1].success
    /\ result[1].count = 0

\* C9 (as stated): when every retrieved chunk scores below the 0.5
\* threshold, handle_query returns the refusal sentinel and no
\* language-model call is performed in the handling of that request.
C9_RefusalWithoutAnyModelCall ==
    (/\ search # <<>>
     /\ search[1].hits # <<>>
     /\ \A k \in 1..Len(search[1].hits) : search[1].hits[k][1] < 50) =>
        /\ pc = "idle"
        /\ ret.kind = "answer"
        /\ ret.text = "Data not available in proposal records."
        /\ \A k \in 1..Len(calls) :
              calls[k] \notin {"llm_parse", "llm_format", "llm_generate"}

\* C9 (amended): when every retrieved chunk scores below the 0.5 threshold,
\* handle_query returns the refusal sentinel without calling the language
\* model to generate an answer; the parser's language-model call may have
\* been made earlier in the same request.
C9_RefusalWithoutGeneration ==
    (/\ search # <<>>
     /\ search[1].hits # <<>>
     /\ \A k \in 1..Len(search[1].hits) : search[1].hits[k][1] < 50) =>
        /\ pc = "idle"
        /\ ret = Answer("Data not available in proposal records.", "refused")
        /\ \A k \in 1..Len(calls) : calls[k] \notin {"llm_format", "llm_generate"}

\* the index returned chunks, the best at 0.49, and the refusal was returned
\* in a request whose question the parser had sent to the language model
C9_Witness ==
    /\ search # <<>>
    /\ search[1].index_present
    /\ search[1].hits # <<>>
    /\ \A k \in 1..Len(search[1].hits) : search[1].hits[k][1] < 50
    /\ \E k \in 1..Len(search[1].hits) : search[1].hits[k][1] = 49
    /\ ret.branch = "refused"
    /\ \E k \in 1..Len(calls) : calls[k] = "llm_parse"

\* C10 (as stated): if the embedding call or the language-model call raises
\* while handle_query processes a question, the exception is caught at the
\* call site and handle_query still returns an answer string; no exception
\* reaches the caller.
C10_NoExceptionReachesCaller ==
    /\ ret.kind # "raised"
    /\ (pc = "idle" /\ requests > 0) => ret.kind = "answer"

(***************************************************************************)
(* One call of parse on its own: the parser holds some history, a question *)
(* arrives and the language model, if it is asked, answers in some way.    *)
(* call_args is <<question, reply>> and call_value the ParsedQuery that    *)
(* parse returns.                                                          *)
(***************************************************************************)
\* the histories a parser can hold before the call: none, one parsed turn
\* with a field filter, one raw turn, one parsed turn with a text filter,
\* and the field-filter turn followed by the text-filter turn
AlarmTurnHistory ==
    add_to_history(<<>>, "How many proposals don't have alarm?",
        _try_deterministic_count("How many proposals don't have alarm?"),
        "1 proposal(s) match the criteria.")

PenangParsed ==
    _llm_parse("how many proposals are in Penang?",
        JsonResponse("count", <<"risk_location">>, "Penang", None, <<>>))

CallHistories ==
    <<<<>>,
      AlarmTurnHistory,
      add_raw_to_history(<<>>, "What does JA Assure cover?",
          "JA Assure covers jewellers, pawnbrokers and money changers."),
      add_to_history(<<>>, "how many proposals are in Penang?", PenangParsed,
          "2 proposal(s) match the criteria."),
      add_to_history(AlarmTurnHistory, "how many proposals are in Penang?",
          PenangParsed, "2 proposal(s) match the criteria.")>>

CallQueries ==
    {"How many proposals have CCTV maintenance?",
     "How many proposals have alarms?",
     "How many proposals don't have alarms?",
     "Count the proposals without strong room",
     "Number of proposals with no armed guards ",
     "how many proposals reported SHOPLIFTING?",
     "How many proposals have alarm maintenance?",
     "Count alarm and list them",
     "Count alarm on average and list them",
     "How many have alarm on average?",
     "Forecast for them",
     "list them",
     "give me their names",
     "and those?",
     "What is the average premium?",
     "how many proposals are in Penang?",
     "Show the highest sum insured",
     "Which proposal has the lowest premium?",
     "What is the cctv brand for myjadeqt003?",
     "Where is Mehta Pawn Services located?"}

\* what the language model does when asked: it raises, answers without a
\* JSON object, with broken JSON, or with an object whose intent is a
\* compound, an unknown word, empty, absent, null, a number, in capitals,
\* and whose list fields are null or not lists
CallResponses ==
    <<Unparsed("raise"),
      Unparsed("no_json"),
      Unparsed("bad_json"),
      JsonResponse("count", <<"risk_location">>, "Penang", None, <<>>),
      JsonResponse("count|list", <<"risk_location">>, None, None, <<>>),
      JsonResponse("compare, lookup", <<"sum_insured">>, None, None, <<>>),
      JsonResponse("aggregate", <<>>, None, None, <<>>),
      JsonResponse("", <<>>, None, None, <<>>),
      JsonResponse(Missing, <<>>, None, None, <<>>),
      JsonResponse(None, <<>>, None, None, <<>>),
      JsonResponse(NonStr, <<>>, None, None, <<>>),
      JsonResponse(" LIST ", <<"business_name_label">>, None, None,
                   <<"business_name_label">>),
      JsonResponse("lookup", None, None, "MYJADEQT003", <<"cctv_brand_label">>),
      JsonResponse("list", <<"premium">>, None, None, NonStr),
      [JsonResponse("count", <<"premise_type_label">>, None, None, <<>>)
           EXCEPT !.filter_field = "premise_type_label",
                  !.filter_value = NonStr]>>

InitParseCall ==
    /\ \E h \in 1..Len(CallHistories) :
          conversation_history = CallHistories[h]
    /\ appended = conversation_history
    /\ mark = 0
    /\ requests = 0
    /\ pc = "idle"
    /\ query = ""
    /\ similarities = <<>>
    /\ step = ""
    /\ parsed = <<>>
    /\ result = <<>>
    /\ search = <<>>
    /\ tried = <<>>
    /\ calls = <<>>
    /\ ret = NoReturn
    /\ \E q \in CallQueries, r \in 1..Len(CallResponses) :
          call_args = <<q, CallResponses[r]>>
    /\ call_value = <<>>

\* parsed = self.parse(query): the step that decides, the model call when
\* step 4 is reached, and the ParsedQuery returned
CallParse ==
    /\ call_value = <<>>
    /\ query' = call_args[1]
    /\ step' = ParseStep(conversation_history, call_args[1])
    /\ calls' = IF step' = "llm" THEN <<"llm_parse">> ELSE <<>>
    /\ call_value' = <<parse(conversation_history, call_args[1], call_args[2])>>
    /\ UNCHANGED <<conversation_history, appended, mark, requests, pc,
                   similarities, parsed, result, search, tried, ret, call_args>>

SpecParseCall == InitParseCall /\ [][CallParse]_vars

(***************************************************************************)
(* Claims C11 - C16: one call of parse.                                    *)
(***************************************************************************)

\* C11: for a question that contains a count trigger ("how many", "count",
\* "number of") and a phrase of the feature table, parse returns
\* intent=count with filter_field set to the field of a phrase the question
\* contains and filter_value to that entry's yes-code (its no-code when the
\* question is negated), without calling the language model: the result is
\* the same whether the model fails or returns anything.  "How many
\* proposals have CCTV maintenance?" gives cctv_maintenance_contract_label
\* with code 001.
C11_InterceptorIgnoresTheModel ==
    call_value # <<>> =>
        LET q == call_args[1]
            p == call_value[1]
            query_lower == Lower(q)
            M == {k \in 1..Len(FEATURE_MAP) :
                     Contains(query_lower, FEATURE_MAP[k][1])}
        IN  (ContainsAny(query_lower, COUNT_TRIGGERS) /\ M # {}) =>
                /\ calls = <<>>
                /\ p.intent = "count"
                /\ p.parse_success
                /\ \E k \in M :
                      /\ p.filter_field = FEATURE_MAP[k][2]
                      /\ p.filter_value =
                             IF ContainsAny(query_lower, NEGATION_WORDS)
                             THEN FEATURE_MAP[k][4] ELSE FEATURE_MAP[k][3]
                /\ \A r \in 1..Len(CallResponses) :
                      parse(conversation_history, q, CallResponses[r]) = p
                /\ q = "How many proposals have CCTV maintenance?" =>
                      /\ p.filter_field = "cctv_maintenance_contract_label"
                      /\ p.filter_value = "001"

\* the CCTV-maintenance question was parsed while the model was failing and
\* the parser held a turn
C11_Witness ==
    /\ call_value # <<>>
    /\ call_args[1] = "How many proposals have CCTV maintenance?"
    /\ call_args[2].kind = "raise"
    /\ conversation_history # <<>>
    /\ call_value[1].filter_field = "cctv_maintenance_contract_label"
    /\ call_value[1].filter_value = "001"
    /\ step = "deterministic"

C13_FirstMatchingStepDecides ==
    call_value # <<>> =>
        LET q == call_args[1]
            p == call_value[1]
            followup == Prefix(p.understood_question, 10) = "Follow-up:"
            det == DeterministicMatch(q)
            oos == _is_out_of_scope(q)
            ref == _is_followup_reference(conversation_history, q)
        IN  /\ det => /\ p.intent = "count"
                      /\ p.filter_field # None
                      /\ ~followup
                      /\ calls = <<>>
            /\ (~det /\ oos) => /\ p.intent = "out_of_scope"
                                /\ ~followup
                                /\ calls = <<>>
            /\ (~det /\ ~oos /\ ref) => /\ followup
                                        /\ p.intent = "list"
                                        /\ calls = <<>>
            /\ (~det /\ ~oos /\ ~ref) => /\ calls = <<"llm_parse">>
                                         /\ ~followup
                                         /\ p.intent # "out_of_scope"

\* a question that matches the interceptor, the denylist and the follow-up
\* patterns at once, asked of a parser that holds a turn
C13_Witness ==
    /\ call_value # <<>>
    /\ call_args[1] = "Count alarm on average and list them"
    /\ DeterministicMatch(call_args[1])
    /\ _is_out_of_scope(call_args[1])
    /\ _is_followup_reference(conversation_history, call_args[1])
    /\ call_value[1].intent = "count"
    /\ calls = <<>>

\* C14: every ParsedQuery returned by parse has intent equal to exactly one
\* of lookup, count, list, compare, out_of_scope, whatever intent value the
\* language model returns (a compound such as "count|list", an unknown
\* word, an empty or missing value, or a non-string).
C14_IntentIsOneOfTheFive ==
    call_value # <<>> =>
        call_value[1].intent \in
            {"lookup", "count", "list", "compare", "out_of_scope"}

\* the model answered "count|list" to a "how many" question and parse made
\* it count
C14_Witness ==
    /\ call_value # <<>>
    /\ step = "llm"
    /\ call_args[1] = "how many proposals are in Penang?"
    /\ call_args[2].kind = "json"
    /\ call_args[2].intent = "count|list"
    /\ call_value[1].intent = "count"
    /\ call_value[1].parse_success

\* C15: when the history is non-empty and the question is detected as a
\* follow-up reference (no earlier step having decided it), parse returns,
\* without any language-model call, a ParsedQuery with intent=list,
\* output_fields=[business_name_label] and filter_field, filter_value and
\* filter_contains equal to those of the most recent turn in the history;
\* with an empty history no question is ever treated as a follow-up.
C15_FollowUpCopiesTheLastTurn ==
    call_value # <<>> =>
        LET q == call_args[1]
            p == call_value[1]
            hist == conversation_history
            last == hist[Len(hist)]
            words == Words(Strip(Lower(q)))
            refers ==
                \/ ContainsAny(Lower(q), followup_patterns)
                \/ /\ Len(words) <= 5
                   /\ ContainsAny(Lower(q),
                          <<"them", "their", "those", "these", "above",
                            "names">>)
        IN  /\ step = "followup" <=>
                  /\ hist # <<>>
                  /\ refers
                  /\ ~DeterministicMatch(q)
                  /\ ~_is_out_of_scope(q)
            /\ step = "followup" =>
                  /\ calls = <<>>
                  /\ p.intent = "list"
                  /\ p.output_fields = <<"business_name_label">>
                  /\ p.filter_field = last.filter_field
                  /\ p.filter_value = last.filter_value
                  /\ p.filter_contains = last.filter_contains
                  /\ p.raw_query = q
            /\ hist = <<>> =>
                  /\ step # "followup"
                  /\ Prefix(p.understood_question, 10) # "Follow-up:"

\* "list them" asked after two turns: the filter is the one of the second
C15_Witness ==
    /\ call_value # <<>>
    /\ call_args[1] = "list them"
    /\ Len(conversation_history) = 2
    /\ conversation_history[1].filter_value = "002"
    /\ conversation_history[2].filter_contains = "Penang"
    /\ step = "followup"
    /\ call_value[1].filter_contains = "Penang"
    /\ call_value[1].filter_value = None

\* C16 (as stated): when the language-model call raises, or its output
\* contains no JSON object, or the JSON violates the ParsedQuery shape
\* (target_fields or output_fields is null or not a list), parse returns the
\* keyword-heuristic result ("how many" -> count, "list/show/which" -> list,
\* "highest/lowest" -> compare, else lookup, with a record id extracted by
\* pattern) and parse_success=false; it never returns the malformed values.
C16_MalformedReplyFallsBack ==
    (call_value # <<>> /\ step = "llm") =>
        LET q == call_args[1]
            r == call_args[2]
            p == call_value[1]
            query_lower == Lower(q)
            not_a_list(v) == v = None \/ v = NonStr
            malformed ==
                \/ r.kind \in {"raise", "no_json", "bad_json"}
                \/ not_a_list(r.target_fields)
                \/ not_a_list(r.output_fields)
        IN  malformed =>
                /\ ~p.parse_success
                /\ <<>> = p.target_fields
                /\ <<>> = p.output_fields
                /\ p.filter_field = None
                /\ p.filter_value = None
                /\ p.filter_contains = None
                /\ p.quote_id = ExtractQuoteId(q)
                /\ p.intent =
                       IF ContainsAny(query_lower,
                              <<"how many", "count", "number of">>)
                       THEN "count"
                       ELSE IF ContainsAny(query_lower,
                                   <<"list", "show", "what are", "which">>)
                       THEN "list"
                       ELSE IF ContainsAny(query_lower,
                                   <<"highest", "lowest", "maximum", "minimum">>)
                       THEN "compare"
                       ELSE "lookup"

(***************************************************************************)
(* One call of SmartQueryExecutor.execute on its own, over the record      *)
(* store METADATA.  call_args is <<parsed>> and call_value the QueryResult *)
(* returned.                                                               *)
(***************************************************************************)
\* <<filter_field, filter_value, filter_contains>>
ExecFilters ==
    {<<None, None, None>>,
     <<"do_you_have_alarm_label", "001", None>>,
     <<"do_you_have_alarm_label", "002", None>>,
     <<"premise_type_label", "002", None>>,
     <<"premise_type_label", "003", None>>,
     <<None, None, "Penang">>,
     <<None, None, "Atlantis">>,
     <<None, None, "Suresh Kumar">>}

\* target_fields, also given as output_fields
ExecFields ==
    {<<>>,
     <<"business_name_label">>,
     <<"alarm_brand_name_label">>,
     <<"cctv_brand_label">>,
     <<"maximum_stock_in_premises_label">>}

ExecQuoteIds == {None, "MYJADEQT003", "MYJADEQT999"}

ExecQueries ==
    {"How many proposals of Suresh Kumar don't have alarm?",
     "Which proposal has the highest maximum stock in premises?",
     "list the proposals in Atlantis"}

ExecInputs ==
    {[intent |-> intent,
      target_fields |-> fields,
      filter_field |-> filter[1],
      filter_value |-> filter[2],
      filter_contains |-> filter[3],
      quote_id |-> quote_id,
      output_fields |-> fields,
      understood_question |-> raw_query,
      raw_query |-> raw_query,
      parse_success |-> TRUE] :
        intent \in SeqToSet(valid_intents), fields \in ExecFields,
        filter \in ExecFilters, quote_id \in ExecQuoteIds,
        raw_query \in ExecQueries}

InitExecuteCall ==
    /\ conversation_history = <<>>
    /\ appended = <<>>
    /\ mark = 0
    /\ requests = 0
    /\ pc = "idle"
    /\ query = ""
    /\ similarities = <<>>
    /\ step = ""
    /\ parsed = <<>>
    /\ result = <<>>
    /\ search = <<>>
    /\ tried = <<>>
    /\ calls = <<>>
    /\ ret = NoReturn
    /\ \E p \in ExecInputs : call_args = <<p>>
    /\ call_value = <<>>

\* result = query_executor.execute(parsed); step is the handler it chose
CallExecute ==
    /\ call_value = <<>>
    /\ step' = ExecuteRoute(call_args[1])
    /\ call_value' = <<execute(call_args[1])>>
    /\ UNCHANGED <<conversation_history, appended, mark, requests, pc, query,
                   similarities, parsed, result, search, tried, calls, ret,
                   call_args>>

SpecExecuteCall == InitExecuteCall /\ [][CallExecute]_vars

(***************************************************************************)
(* Claims C17 - C18: one call of execute.                                  *)
(***************************************************************************)

\* C17 (as stated): for every ParsedQuery given to execute, when the intent
\* is count or list and nothing matches, the result is success=true with
\* count=0; when the intent is lookup or compare and nothing matches, the
\* result is success=false.
C17_ZeroMatchesByIntent ==
    (call_value # <<>> /\ call_value[1].data = <<>>) =>
        LET p == call_args[1]
            r == call_value[1]
        IN  /\ r.count = 0
            /\ p.intent \in {"count", "list"} => r.success
            /\ p.intent \in {"lookup", "compare"} => ~r.success

\* C18: a count or list that execute hands to _execute_count or _execute_list
\* returns one row per matching record however many of its chunks match: no
\* quote id occurs twice in data, count is the number of distinct matching
\* records and the length of data, and list returns the rows of count for
\* the same filters.
MatchingChunks(pq, qid) ==
    {k \in 1..Len(METADATA) :
        /\ METADATA[k].quote_id = qid
        /\ IF Truthy(pq.filter_contains)
           THEN ContainsFilterFound(METADATA[k], Lower(pq.filter_contains))
           ELSE /\ Truthy(pq.filter_field)
                /\ Truthy(pq.filter_value)
                /\ <<>> # FieldFilterMatch(METADATA[k],
                       Replace(Lower(pq.filter_field), "_label", ""),
                       Strip(Lower(pq.filter_value)))}

MatchingRecords(pq) ==
    {METADATA[k].quote_id : k \in {j \in 1..Len(METADATA) :
        /\ Truthy(METADATA[j].quote_id)
        /\ j \in MatchingChunks(pq, METADATA[j].quote_id)}}

ScoreFields ==
    {"alarm", "alarm_brand", "alarm_brand_name_label", "cctv_brand_label",
     "do_you_have_alarm_label", "brand_of_the_alarm", "Premium", "premium_label"}
ScoreWords == {"type", "alarm", "the", "label"}
ScorePositions == {"front", "end"}

\* the field name with one more underscore-separated word
WithWord(name, word, position) ==
    IF position = "front" THEN word \o "_" \o name ELSE name \o "_" \o word

InitScoreCall ==
    /\ conversation_history = <<>>
    /\ appended = <<>>
    /\ mark = 0
    /\ requests = 0
    /\ pc = "idle"
    /\ query = ""
    /\ similarities = <<>>
    /\ step = ""
    /\ parsed = <<>>
    /\ result = <<>>
    /\ search = <<>>
    /\ tried = <<>>
    /\ calls = <<>>
    /\ ret = NoReturn
    /\ call_value = <<>>
    /\ \E requested_field \in ScoreFields, actual_field \in ScoreFields,
          word \in ScoreWords, position \in ScorePositions :
          call_args = <<requested_field, actual_field, word, position>>

CallScore ==
    /\ call_value = <<>>
    /\ call_value' =
          <<_field_match_score(call_args[1], call_args[2]),
            _field_match_score(WithWord(call_args[1], call_args[3], call_args[4]),
                               WithWord(call_args[2], call_args[3], call_args[4]))>>
    /\ UNCHANGED <<conversation_history, appended, mark, requests, pc, query,
                   similarities, step, parsed, result, search, tried, calls,
                   ret, call_args>>

SpecScoreCall == InitScoreCall /\ [][CallScore]_vars

(***************************************************************************)
(* Claim C19                                                               *)
(***************************************************************************)
\* C19: _field_match_score gives 100 for two identical names, and adding the
\* same word to the requested and to the actual name never lowers the score.
C19_ScoreIsMonotonic ==
    call_value # <<>> =>
        /\ call_args[1] = call_args[2] => call_value[1] = EXACT_MATCH_SCORE
        /\ call_value[2] >= call_value[1]

(***************************************************************************)
(* mappings.decode_field on its own: call_args is <<field_name, value>>    *)
(* and call_value is <<the decoded text>>.  FIELD_DECODE_TABLE is modelled *)
(* for two of its fields; no passthrough field is a key of the table.      *)
(***************************************************************************)
PASSTHROUGH_FIELDS ==
    {"premise_type_others_label", "roof_materials_others_label",
     "wall_materials_others_label", "floor_materials_others_label",
     "cctv_model_label", "cctv_brand_name_label",
     "type_of_backup_others_label",
     "additional_capability_others_label", "door_access_others_label",
     "others_label", "rear_door_others_label", "main_door_others_label",
     "inner_door_others_label", "alarm_brand_name_label",
     "alarm_model_label", "type_of_alarm_others_label",
     "name_of_cms_company_label", "safe_model_label",
     "safe_weight_label", "safe_brand_name_label",
     "time_locking_brand_label",
     "wall_showcases_are_protected_by_others_label",
     "dw_counter_showcases_are_protected_by_others_label",
     "display_window_protected_by_others_label",
     "rear_display_window_protected_by_others_label",
     "display_window_form_title_label", "director_house_coverage_label",
     "fidelity_guarantee_insurance_label",
     "fidelity_guarantee_total_staff_label", "overseas_carrying_label",
     "sum_assured_limit_label", "public_exhibitions_label",
     "risk_location_address_label", "authorized_company_name_label",
     "description_label", "year_of_claim_label",
     "amount_of_claim_label", "business_name_label",
     "mobile_number_label", "mailing_address_label",
     "office_telephone_label", "person_in_charge_label",
     "correspondence_email_label", "business_registration_label",
     "property_label", "risk_address_label",
     "maximum_value_kept_as_display_at_during_business_hours_aw_label",
     "maximum_value_kept_as_display_at_during_business_hours_1ar_label",
     "maximum_value_kept_as_display_at_during_business_hours_1pd_label",
     "maximum_value_kept_as_display_at_during_business_hours_aws_label",
     "maximum_value_kept_as_display_at_during_after_business_hours_aw_label",
     "maximum_value_kept_as_display_at_during_after_business_hours_1ar_label",
     "maximum_value_kept_as_display_at_during_after_business_hours_1pd_label",
     "maximum_value_kept_as_display_at_during_after_business_hours_aws_label",
     "maximum_stock_in_premises_label",
     "value_of_stock_out_of_safe_label",
     "maximum_stock_during_transit_label",
     "maximum_cash_in_premises_label", "maximum_foreign_currency_label",
     "value_of_cash_in_premise_label",
     "value_of_pledged_stock_in_premise_label",
     "value_of_non_pledged_stock_in_premise_label",
     "maximum_stock_foreign_currency_in_premise_label",
     "maximum_stock_foreign_currency_in_transit_label",
     "value_of_stock_in_transit_label"}

YES_NO_MAP ==
    ("001" :> "Yes") @@ ("002" :> "No") @@ ("1" :> "Yes") @@ ("2" :> "No")
        @@ ("true" :> "Yes") @@ ("false" :> "No")

INDUSTRY_MAP ==
    ("1" :> "Jewellery & Gold") @@ ("2" :> "Diamond & Precious Stones")
        @@ ("6" :> "Money Services") @@ ("7" :> "Luxury Watches")
        @@ ("13" :> "Pawnbrokers")

FIELD_DECODE_TABLE ==
    ("industry_id_label" :> INDUSTRY_MAP)
        @@ ("do_you_have_alarm_label" :> YES_NO_MAP)

\* a plausible slip: the text of the value is returned without .strip()
decode_field_unstripped(field_name, value) ==
    IF value = None THEN "" ELSE StrOrNone(value)

decode_field(field_name, value) ==
    IF value = None \/ value = "" THEN ""
    ELSE IF value = NonStr THEN NonStrText
    ELSE LET value_str == Strip(StrOrNone(value))
         IN  IF field_name \in PASSTHROUGH_FIELDS THEN value_str
             ELSE IF field_name \in DOMAIN FIELD_DECODE_TABLE
             THEN LET decode_map == FIELD_DECODE_TABLE[field_name]
                  IN  IF value_str \in DOMAIN decode_map
                      THEN decode_map[value_str]
                      ELSE IF decode_map = INDUSTRY_MAP /\ AllDigits(value_str)
                      THEN "Unknown (" \o value_str \o ")"
                      ELSE value_str
             ELSE value_str

DecodeFields ==
    PASSTHROUGH_FIELDS \cup DOMAIN FIELD_DECODE_TABLE \cup {"quote_id"}

DecodeValues ==
    {None, "", "001", "002", "99", "Bosch", " Bosch ", "12 Jalan Besar\n",
     "  ", JSON_FALSE, NonStr}

InitDecodeCall ==
    /\ conversation_history = <<>>
    /\ appended = <<>>
    /\ mark = 0
    /\ requests = 0
    /\ pc = "idle"
    /\ query = ""
    /\ similarities = <<>>
    /\ step = ""
    /\ parsed = <<>>
    /\ result = <<>>
    /\ search = <<>>
    /\ tried = <<>>
    /\ calls = <<>>
    /\ ret = NoReturn
    /\ call_value = <<>>
    /\ \E field_name \in DecodeFields, value \in DecodeValues :
          call_args = <<field_name, value>>

CallDecode ==
    /\ call_value = <<>>
    /\ call_value' = <<decode_field(call_args[1], call_args[2])>>
    /\ UNCHANGED <<conversation_history, appended, mark, requests, pc, query,
                   similarities, step, parsed, result, search, tried, calls,
                   ret, call_args>>

SpecDecodeCall == InitDecodeCall /\ [][CallDecode]_vars

Clients == {"alice", "bob"}

ApiQuestions ==
    {"how many proposals are in Penang?", "list them",
     "What is the average premium?", "  "}

ApiParseResponses ==
    {Unparsed("raise"),
     JsonResponse("count", <<"risk_location">>, "Penang", None, <<>>)}

EmptyQuestion ==
    [kind |-> "http_400", text |-> "Question cannot be empty", branch |-> ""]

\* query_endpoint up to the call of handle_query
ApiReceive(client, question) ==
    /\ pc = "idle"
    /\ Len(call_value) = requests
    /\ requests < MaxRequests
    /\ Strip(question) # ""
    /\ call_args' = <<client, Strip(question)>>
    /\ call_value' = Append(call_value, <<client, Len(appended)>>)
    /\ UNCHANGED <<conversation_history, appended, mark, requests, pc, query,
                   similarities, step, parsed, result, search, tried, calls,
                   ret>>

\* query_endpoint raises HTTPException(400) for a blank question
ApiRejectEmpty(client, question) ==
    /\ pc = "idle"
    /\ Len(call_value) = requests
    /\ Strip(question) = ""
    /\ call_args' = <<client, Strip(question)>>
    /\ ret' = EmptyQuestion
    /\ UNCHANGED <<conversation_history, appended, mark, requests, pc, query,
                   similarities, step, parsed, result, search, tried, calls,
                   call_value>>

\* a request was received and handle_query has not been entered for it
Handed == Len(call_value) = requests + 1

NextApi ==
    \/ \E client \in Clients, question \in ApiQuestions :
          ApiReceive(client, question)
    \/ \E client \in Clients, question \in ApiQuestions :
          ApiRejectEmpty(client, question)
    \/ Handed /\ EmbedQueryFails(call_args[2])
    \/ \E sims \in SimilarityInputs : Handed /\ FastPathHit(call_args[2], sims)
    \/ \E sims \in SimilarityInputs : Handed /\ FastPathMiss(call_args[2], sims)
    \/ \E r \in ApiParseResponses : Parse(r)
    \/ OutOfScope
    \/ Execute
    \/ \E llm_out \in GeneratedAnswers \cup {None} : ExecutorAnswers(llm_out)
    \/ ExecutorDeclines
    \/ \E k \in 1..4, answer \in LegacyAnswers : LegacyAnswers_at(k, answer)
    \/ LegacyDeclines
    \/ RetrieveEmbedFails
    \/ \E s \in SearchInputs : Refuse(s)
    \/ \E s \in SearchInputs : Retrieve(s)
    \/ \E raw_answer \in GeneratedAnswers : Generate(raw_answer)
    \/ GenerateFails

SpecApi == Init /\ [][NextApi]_vars

\* the client whose request recorded the k-th turn ever recorded: the last
\* request that was handed over while fewer than k turns were recorded
TurnClient(k) ==
    LET before == {i \in 1..Len(call_value) : call_value[i][2] < k}
    IN  call_value[CHOOSE i \in before : \A j \in before : j <= i][1]

\* the clients whose turns conversation_history holds
HistoryClients ==
    {TurnClient(k) :
        k \in (Len(appended) - Len(conversation_history) + 1)..Len(appended)}

(***************************************************************************)
(* Claim C21                                                               *)
(***************************************************************************)
\* C21: conversation state is scoped to one session: when a request has its
\* question resolved as a follow-up or parsed with the history section in
\* the prompt, or its answer generated with the history context, the turns
\* of conversation_history were all recorded for the client of that request.
C21_HistoryIsScopedToTheSession ==
    (\/ pc = "execute" /\ step \in {"followup", "llm"}
     \/ pc = "generate")
        => HistoryClients \subseteq {call_args[1]}

(***************************************************************************)
(* Embedder.embed_with_retry, step by step.  call_args is                  *)
(* <<texts, batch_size, max_retries>>; call_value is the frame of the      *)
(* call: its position (pc), the locals batch_idx, attempt and              *)
(* all_embeddings, the calls it has made to model.encode and time.sleep    *)
(* (trace) and, once it has returned, its return value (ret).  Whether     *)
(* model.encode returns or raises is left open.                            *)
(***************************************************************************)
DEFAULT_BATCH_SIZE == 16
MAX_RETRIES == 3
BASE_DELAY_SECONDS == 2

\* model.encode([text])[0]
Embedding(text) == <<"embedding", text>>

Embeddings(batch) == [k \in 1..Len(batch) |-> Embedding(batch[k])]

\* np.vstack(all_embeddings)
RECURSIVE VStack(_)
VStack(all_embeddings) ==
    IF all_embeddings = <<>> THEN <<>>
    ELSE Head(all_embeddings) \o VStack(Tail(all_embeddings))

\* texts[batch_idx:batch_idx + batch_size]
BatchAt(texts, batch_idx, batch_size) ==
    SubSeq(texts, batch_idx + 1,
           IF batch_idx + batch_size < Len(texts)
           THEN batch_idx + batch_size ELSE Len(texts))

BatchNum(batch_idx, batch_size) == batch_idx \div batch_size + 1

\* a plausible slip: the wait is taken after the last attempt as well
SleepsBeforeRetry_always(attempt, max_retries) == TRUE

\* `if attempt < max_retries: time.sleep(delay)`
SleepsBeforeRetry(attempt, max_retries) == attempt < max_retries

BackoffDelay(attempt) == BASE_DELAY_SECONDS ^ attempt

EncodeCall(batch_num, attempt, outcome) ==
    [call |-> "encode", batch_num |-> batch_num, attempt |-> attempt,
     outcome |-> outcome, delay |-> 0]

SleepCall(batch_num, attempt, delay) ==
    [call |-> "sleep", batch_num |-> batch_num, attempt |-> attempt,
     outcome |-> "", delay |-> delay]

EmbedFrame ==
    [pc |-> "loop", batch_idx |-> 0, attempt |-> 0, all_embeddings |-> <<>>,
     trace |-> <<>>, ret |-> <<>>]

EmbedTexts(n) == [k \in 1..n |-> "text " \o NatToStr(k)]

InitEmbed ==
    /\ conversation_history = <<>>
    /\ appended = <<>>
    /\ mark = 0
    /\ requests = 0
    /\ pc = "idle"
    /\ query = ""
    /\ similarities = <<>>
    /\ step = ""
    /\ parsed = <<>>
    /\ result = <<>>
    /\ search = <<>>
    /\ tried = <<>>
    /\ calls = <<>>
    /\ ret = NoReturn
    /\ call_value = EmbedFrame
    /\ \E n \in 0..MaxTexts, batch_size \in 1..MaxBatchSize,
          max_retries \in 0..MaxRetriesArg :
          call_args = <<EmbedTexts(n), batch_size, max_retries>>

EmbedUnchanged ==
    UNCHANGED <<conversation_history, appended, mark, requests, pc, query,
                similarities, step, parsed, result, search, tried, calls, ret,
                call_args>>

\* the loop is over (or texts is empty): the stacked embeddings are returned
EmbedReturns ==
    /\ call_value.pc = "loop"
    /\ call_value.batch_idx >= Len(call_args[1])
    /\ call_value' = [call_value EXCEPT !.pc = "done",
                                        !.ret = VStack(call_value.all_embeddings)]
    /\ EmbedUnchanged

\* the next batch is handed to _embed_batch_with_retry, which returns None
\* at once when range(1, max_retries + 1) is empty
EmbedBatch ==
    /\ call_value.pc = "loop"
    /\ call_value.batch_idx < Len(call_args[1])
    /\ call_value' =
          IF call_args[3] >= 1
          THEN [call_value EXCEPT !.pc = "encode", !.attempt = 1]
          ELSE [call_value EXCEPT
                   !.batch_idx = call_value.batch_idx + call_args[2]]
    /\ EmbedUnchanged

\* model.encode returns: the batch is appended and the loop goes on
EncodeReturns ==
    /\ call_value.pc = "encode"
    /\ LET batch == BatchAt(call_args[1], call_value.batch_idx, call_args[2])
           batch_num == BatchNum(call_value.batch_idx, call_args[2])
       IN  call_value' =
              [call_value EXCEPT
                  !.pc = "loop",
                  !.batch_idx = call_value.batch_idx + call_args[2],
                  !.all_embeddings = Append(call_value.all_embeddings,
                                            Embeddings(batch)),
                  !.trace = Append(call_value.trace,
                                   EncodeCall(batch_num, call_value.attempt,
                                              "returned"))]
    /\ EmbedUnchanged

\* model.encode raises: sleep and try again, or give the batch up
EncodeRaises ==
    /\ call_value.pc = "encode"
    /\ LET batch_num == BatchNum(call_value.batch_idx, call_args[2])
           attempt == call_value.attempt
           raised == Append(call_value.trace,
                            EncodeCall(batch_num, attempt, "raised"))
           slept == IF SleepsBeforeRetry(attempt, call_args[3])
                    THEN Append(raised, SleepCall(batch_num, attempt,
                                                  BackoffDelay(attempt)))
                    ELSE raised
       IN  call_value' =
              IF attempt < call_args[3]
              THEN [call_value EXCEPT !.attempt = attempt + 1,
                                      !.trace = slept]
              ELSE [call_value EXCEPT
                       !.pc = "loop",
                       !.batch_idx = call_value.batch_idx + call_args[2],
                       !.trace = slept]
    /\ EmbedUnchanged

NextEmbed == EmbedReturns \/ EmbedBatch \/ EncodeReturns \/ EncodeRaises

\* the call runs on its own thread of control: it keeps taking steps
SpecEmbed == InitEmbed /\ [][NextEmbed]_vars /\ WF_vars(NextEmbed)

(***************************************************************************)
(* Claim C22                                                               *)
(***************************************************************************)
TotalBatches == (Len(call_args[1]) + call_args[2] - 1) \div call_args[2]

BatchSucceeded(batch_num) ==
    \E i \in 1..Len(call_value.trace) :
        call_value.trace[i] =
            EncodeCall(batch_num, call_value.trace[i].attempt, "returned")

\* the embeddings of the batches from batch_num on that succeeded, in order
RECURSIVE SucceededRows(_)
SucceededRows(batch_num) ==
    IF batch_num > TotalBatches THEN <<>>
    ELSE (IF BatchSucceeded(batch_num)
          THEN Embeddings(BatchAt(call_args[1],
                                  (batch_num - 1) * call_args[2], call_args[2]))
          ELSE <<>>)
         \o SucceededRows(batch_num + 1)

BoundedRetries ==
    LET t == call_value.trace
    IN  \A i \in 1..Len(t) :
            t[i].call = "encode" =>
                /\ t[i].attempt \in 1..call_args[3]
                /\ \A j \in 1..Len(t) :
                      (/\ t[j].call = "encode"
                       /\ t[j].batch_num = t[i].batch_num
                       /\ t[j].attempt = t[i].attempt) => j = i
                /\ t[i].outcome = "returned" =>
                      \A j \in (i + 1)..Len(t) :
                          t[j].batch_num > t[i].batch_num

BackoffBetweenAttempts ==
    LET t == call_value.trace
    IN  /\ \A i \in 1..Len(t) :
              t[i].call = "sleep" =>
                  /\ i > 1
                  /\ t[i - 1] = EncodeCall(t[i].batch_num, t[i].attempt, "raised")
                  /\ t[i].attempt < call_args[3]
                  /\ t[i].delay = 2 ^ t[i].attempt
                  /\ IF i < Len(t)
                     THEN /\ t[i + 1].call = "encode"
                          /\ t[i + 1].batch_num = t[i].batch_num
                          /\ t[i + 1].attempt = t[i].attempt + 1
                     ELSE /\ call_value.pc = "encode"
                          /\ call_value.attempt = t[i].attempt + 1
        /\ \A i \in 1..Len(t) :
              (t[i].call = "encode" /\ t[i].outcome = "raised"
                  /\ t[i].attempt < call_args[3]) =>
                  /\ i < Len(t)
                  /\ t[i + 1].call = "sleep"

SkipsAndGoesOn ==
    call_value.pc = "done" =>
        /\ call_value.ret = SucceededRows(1)
        /\ call_args[3] >= 1 =>
              \A batch_num \in 1..TotalBatches :
                  \E i \in 1..Len(call_value.trace) :
                      /\ call_value.trace[i].call = "encode"
                      /\ call_value.trace[i].batch_num = batch_num

\* C22: embed_with_retry tries each batch at most max_retries times, waits
\* 2^attempt seconds only between a failed attempt and the next one, skips a
\* batch whose attempts all fail and goes on with the following batches, and
\* always terminates returning the embeddings of exactly the batches that
\* succeeded, in their original order.
C22_BoundedRetryWithBackoff ==
    /\ [](BoundedRetries /\ BackoffBetweenAttempts /\ SkipsAndGoesOn)
    /\ <>(call_value.pc = "done")

C22_Witness ==
    /\ call_value.pc = "done"
    /\ call_args[3] = MAX_RETRIES
    /\ TotalBatches >= 3
    /\ ~BatchSucceeded(1)
    /\ BatchSucceeded(2)
    /\ EncodeCall(2, 1, "raised") \in SeqToSet(call_value.trace)
    /\ SleepCall(1, 2, 4) \in SeqToSet(call_value.trace)
    /\ Len(call_value.ret) < Len(call_args[1])
    /\ call_value.ret # <<>>

(***************************************************************************)
(* SmartQueryExecutor._execute_lookup on its own: call_args is <<the       *)
(* ParsedQuery>> and call_value is <<the QueryResult>>.                    *)
(***************************************************************************)
LookupQuoteIds == {"MYJADEQT001", "MYJADEQT003", "MYJADEQT999"}

LookupFields ==
    {<<>>, <<"do_you_have_alarm_label">>, <<"person_in_charge_label">>,
     <<"risk_location">>, <<"alarm_brand_name_label", "alarm_brand">>,
     <<"cctv_brand_label">>, <<"maximum_stock_in_premises_label", "user_name">>}

LookupInputs ==
    {[intent |-> "lookup", target_fields |-> target_fields,
      filter_field |-> None, filter_value |-> None, filter_contains |-> None,
      quote_id |-> quote_id, output_fields |-> output_fields,
      understood_question |-> "", raw_query |-> "", parse_success |-> TRUE] :
        quote_id \in LookupQuoteIds, output_fields \in LookupFields,
        target_fields \in LookupFields}

InitLookupCall ==
    /\ conversation_history = <<>>
    /\ appended = <<>>
    /\ mark = 0
    /\ requests = 0
    /\ pc = "idle"
    /\ query = ""
    /\ similarities = <<>>
    /\ step = ""
    /\ parsed = <<>>
    /\ result = <<>>
    /\ search = <<>>
    /\ tried = <<>>
    /\ calls = <<>>
    /\ ret = NoReturn
    /\ call_value = <<>>
    /\ \E pq \in LookupInputs : call_args = <<pq>>

CallLookup ==
    /\ call_value = <<>>
    /\ call_value' = <<_execute_lookup(call_args[1])>>
    /\ UNCHANGED <<conversation_history, appended, mark, requests, pc, query,
                   similarities, step, parsed, result, search, tried, calls,
                   ret, call_args>>

SpecLookupCall == InitLookupCall /\ [][CallLookup]_vars

(***************************************************************************)
(* Claim C23                                                               *)
(***************************************************************************)
\* the chunks of the record a lookup names
RecordChunks(quote_id) ==
    {k \in 1..Len(METADATA) : METADATA[k].quote_id = quote_id}

\* row is the field of chunk k that scores highest, and at least 10, against
\* one of the requested names
BestOfChunk(row, k, requested) ==
    LET search_fields == _get_search_fields(METADATA[k])
    IN  \E j \in 1..Len(search_fields), r \in 1..Len(requested) :
            /\ search_fields[j] = <<row.field, row.value>>
            /\ _field_match_score(requested[r], row.field) >= 10
            /\ \A i \in 1..Len(search_fields) :
                  _field_match_score(requested[r], search_fields[i][1])
                      <= _field_match_score(requested[r], row.field)

\* some output field matches some field of the record
OutputFieldMatched(pq) ==
    \E k \in RecordChunks(pq.quote_id), j \in 1..Len(pq.output_fields) :
        BestField(pq.output_fields[j], _get_search_fields(METADATA[k])).score
            >= 10

\* C23: every row of a lookup by record id belongs to that record and names
\* the best-scoring field of its chunk, with a score of at least 10, for one
\* of the output fields, or for one of the target fields when no output
\* field matched; no two rows share (record id, field).
C23_RowsAreBestMatches ==
    call_value # <<>> =>
        LET pq == call_args[1]
            data == call_value[1].data
        IN  /\ \A i \in 1..Len(data) :
                  /\ data[i].quote_id = pq.quote_id
                  /\ \E k \in RecordChunks(pq.quote_id) :
                        \/ BestOfChunk(data[i], k, pq.output_fields)
                        \/ /\ ~OutputFieldMatched(pq)
                           /\ BestOfChunk(data[i], k, pq.target_fields)
            /\ \A i, j \in 1..Len(data) :
                  data[i].field = data[j].field => i = j

(***************************************************************************)
(* SmartQueryExecutor._execute_compare on its own: call_args is            *)
(* <<the ParsedQuery, the extreme its question asks for>> and call_value   *)
(* is <<the QueryResult>>.                                                 *)
(***************************************************************************)
CompareQuestions ==
    {<<"Which proposal has the highest maximum stock in premises?", "maximum">>,
     <<"Which proposal has the most stock?", "maximum">>,
     <<"Which proposal has the lowest premium?", "minimum">>,
     <<"Which proposal has the smallest stock?", "minimum">>,
     <<"Which proposal has the least stock?", "minimum">>,
     <<"Which proposal has the lowest maximum stock in premises?", "minimum">>}

CompareTargets ==
    {<<>>, <<"maximum_stock_in_premises_label">>, <<"do_you_have_alarm_label">>,
     <<"premium_label">>, <<"stock">>, <<"alarm">>, <<"alarm_brand_name_label">>,
     <<"maximum_stock_in_premises_label", "do_you_have_alarm_label">>,
     <<"do_you_have_alarm_label", "maximum_stock_in_premises_label">>,
     <<"business_name_label", "stock">>, <<"premium_label", "alarm">>}

InitCompareCall ==
    /\ conversation_history = <<>>
    /\ appended = <<>>
    /\ mark = 0
    /\ requests = 0
    /\ pc = "idle"
    /\ query = ""
    /\ similarities = <<>>
    /\ step = ""
    /\ parsed = <<>>
    /\ result = <<>>
    /\ search = <<>>
    /\ tried = <<>>
    /\ calls = <<>>
    /\ ret = NoReturn
    /\ call_value = <<>>
    /\ \E question \in CompareQuestions, target_fields \in CompareTargets :
          call_args =
              <<[intent |-> "compare", target_fields |-> target_fields,
                 filter_field |-> None, filter_value |-> None,
                 filter_contains |-> None, quote_id |-> None,
                 output_fields |-> target_fields,
                 understood_question |-> question[1],
                 raw_query |-> question[1], parse_success |-> TRUE],
                question[2]>>

CallCompare ==
    /\ call_value = <<>>
    /\ call_value' = <<_execute_compare(call_args[1])>>
    /\ UNCHANGED <<conversation_history, appended, mark, requests, pc, query,
                   similarities, step, parsed, result, search, tried, calls,
                   ret, call_args>>

SpecCompareCall == InitCompareCall /\ [][CallCompare]_vars

(***************************************************************************)
(* Claim C24                                                               *)
(***************************************************************************)
\* the parsed numeric values of the raw fields that match a target field
ComparableValues(pq) ==
    {CompareScan(pq, 1)[k].numeric : k \in 1..Len(CompareScan(pq, 1))}

\* C24: a compare query returns the record with the largest numeric value
\* among the raw fields matching a target field when the question asks for a
\* maximum, and the record with the smallest such value when it asks for a
\* minimum, also when the field name in the question holds a maximum word.
C24_ReturnsTheExtremeAskedFor ==
    (call_value # <<>> /\ ComparableValues(call_args[1]) # {}) =>
        LET best == call_value[1].data[1]
        IN  /\ call_value[1].success
            /\ best \in SeqToSet(CompareScan(call_args[1], 1))
            /\ call_args[2] = "maximum" =>
                  \A v \in ComparableValues(call_args[1]) : v <= best.numeric
            /\ call_args[2] = "minimum" =>
                  \A v \in ComparableValues(call_args[1]) : best.numeric <= v

(***************************************************************************)
(* QueryParser._normalize_intent on its own: call_args is                  *)
(* <<raw_intent, query>> and call_value is <<the intent returned>>.        *)
(***************************************************************************)
IntentStrings ==
    {"count", "count|list", "list|count", "count/list", "list, count",
     "compare, lookup", "lookup list", "compare|list", "aggregate",
     "search|find", "COUNT", ""}

IntentQueries ==
    {"how many proposals are in Penang?", "list the proposals in Penang",
     "Which proposal has the highest premium?",
     "What is the highest premium?",
     "What is the cctv brand for MYJADEQT003?",
     "Tell me about Penang"}

InitIntentCall ==
    /\ conversation_history = <<>>
    /\ appended = <<>>
    /\ mark = 0
    /\ requests = 0
    /\ pc = "idle"
    /\ query = ""
    /\ similarities = <<>>
    /\ step = ""
    /\ parsed = <<>>
    /\ result = <<>>
    /\ search = <<>>
    /\ tried = <<>>
    /\ calls = <<>>
    /\ ret = NoReturn
    /\ call_value = <<>>
    /\ \E raw_intent \in IntentStrings, question \in IntentQueries :
          call_args = <<raw_intent, question>>

CallNormalizeIntent ==
    /\ call_value = <<>>
    /\ call_value' = <<_normalize_intent(call_args[1], call_args[2])>>
    /\ UNCHANGED <<conversation_history, appended, mark, requests, pc, query,
                   similarities, step, parsed, result, search, tried, calls,
                   ret, call_args>>

SpecIntentCall == InitIntentCall /\ [][CallNormalizeIntent]_vars

(***************************************************************************)
(* Claim C25                                                               *)
(***************************************************************************)
\* the valid intents among the delimited tokens of the intent string
FoundIntents(raw_intent) ==
    SeqToSet(Split(raw_intent, INTENT_DELIMS)) \cap SeqToSet(valid_intents)

AsksCount(question) ==
    ContainsAny(Lower(question), <<"how many", "count", "number of", "total">>)

\* C25 as the specification states it: a delimited intent string is reduced
\* to one of its valid tokens by keyword priority against the question, and
\* an intent string that holds no recognised token becomes lookup.
C25_UnrecognisedBecomesLookup ==
    call_value # <<>> =>
        /\ FoundIntents(call_args[1]) # {} =>
              call_value[1] \in FoundIntents(call_args[1])
        /\ FoundIntents(call_args[1]) = {} => call_value[1] = "lookup"

\* C25 as the code has it: a delimited intent string is reduced to one of
\* its valid tokens, count when count is among them and the question has a
\* count keyword; an intent string that holds no recognised token is
\* inferred from the keywords of the question (count, then list, then
\* compare) and becomes lookup only when the question has none of them.
C25_UnrecognisedIsInferredFromTheQuestion ==
    call_value # <<>> =>
        LET found == FoundIntents(call_args[1])
            q == Lower(call_args[2])
        IN  /\ call_value[1] \in SeqToSet(valid_intents)
            /\ found # {} => call_value[1] \in found
            /\ ("count" \in found /\ AsksCount(call_args[2])) =>
                  call_value[1] = "count"
            /\ found = {} =>
                  call_value[1] =
                      IF AsksCount(call_args[2]) THEN "count"
                      ELSE IF ContainsAny(q, <<"list", "show", "which",
                                               "what are", "give", "name">>)
                      THEN "list"
                      ELSE IF ContainsAny(q, <<"highest", "lowest", "maximum",
                                               "minimum">>)
                      THEN "compare"
                      ELSE "lookup"

C25_Witness ==
    /\ call_value = <<"count">>
    /\ call_args = <<"aggregate", "how many proposals are in Penang?">>

(***************************************************************************)
(* Claim C26: a count or list over a coded filter value.                   *)
(***************************************************************************)

\* the records whose raw code for filter_field is code
RawCodeRecords(filter_field, code) ==
    {METADATA[k].quote_id :
        k \in {i \in 1..Len(METADATA) :
                  <<filter_field, code>> \in SeqToSet(METADATA[i].fields)}}

\* C26 (as stated): a count or list with filter_field F and a coded
\* filter_value c counts a record if and only if the record's raw code for F
\* equals c, also when the store holds the decoded label of F next to the
\* raw code.
C26_CodedFilterCountsByRawCode ==
    (/\ call_value # <<>>
     /\ step \in {"count", "list"}
     /\ call_args[1].quote_id = None
     /\ call_args[1].filter_contains = None
     /\ call_args[1].filter_field = "premise_type_label") =>
        RowQuoteIds(call_value[1].data) =
            RawCodeRecords(call_args[1].filter_field,
                           call_args[1].filter_value)

(***************************************************************************)
(* build_index followed by retrievals: the chunks are embedded by          *)
(* embed_with_retry with its default batch size and retry count, the       *)
(* vectors and the metadata of every chunk are written, and                *)
(* retrieve_chunks_with_threshold reads both back.  The frame of           *)
(* embed_with_retry is extended with the two files and the last retrieval. *)
(***************************************************************************)
ChunkQuoteId(k) == "MYJADEQT" \o NatToStr(100 + k)

\* the chunks flatten_record produces, as build_index receives them
TextChunk(k) ==
    [quote_id |-> ChunkQuoteId(k), section |-> "alarm",
     text |-> "Proposal " \o ChunkQuoteId(k) \o " - Alarm:\nAlarm Installed: Yes",
     fields |-> <<<<"do_you_have_alarm_label", "001">>,
                  <<"alarm_brand_name_label", "">>>>,
     metadata |-> [risk_location |-> "George Town, Penang",
                   user_name |-> "Suresh Kumar"]]

TextChunks(n) == [k \in 1..n |-> TextChunk(k)]

\* decoded_flat of one chunk
DecodedFlat(chunk) ==
    LET raw_fields == chunk.fields
        decoded == [k \in 1..Len(raw_fields) |->
                       <<raw_fields[k][1],
                         IF raw_fields[k][2] \in {None, "", "-1"}
                         THEN (IF raw_fields[k][2] = None THEN ""
                               ELSE raw_fields[k][2])
                         ELSE decode_field(raw_fields[k][1], raw_fields[k][2])>>]
    IN  DictSet(DictSet(decoded, "risk_location", chunk.metadata.risk_location),
                "user_name", chunk.metadata.user_name)

\* the entry build_index appends to metadatas for one chunk
MetadataEntry(chunk) ==
    [quote_id |-> chunk.quote_id, section |-> chunk.section,
     text |-> chunk.text, fields |-> chunk.fields,
     decoded_fields |-> DecodedFlat(chunk),
     risk_location |-> chunk.metadata.risk_location,
     user_name |-> chunk.metadata.user_name]

Metadatas(text_chunks) ==
    [k \in 1..Len(text_chunks) |-> MetadataEntry(text_chunks[k])]

Texts(text_chunks) == [k \in 1..Len(text_chunks) |-> text_chunks[k].text]

BuildFrame ==
    [pc |-> "loop", batch_idx |-> 0, attempt |-> 0, all_embeddings |-> <<>>,
     trace |-> <<>>, ret |-> <<>>,
     index |-> <<>>, metadata |-> <<>>, results |-> <<>>]

\* similarity scores the search may report for a row, in hundredths
RetrievedScores == {40, 80}

InitBuildIndex ==
    /\ conversation_history = <<>>
    /\ appended = <<>>
    /\ mark = 0
    /\ requests = 0
    /\ pc = "idle"
    /\ query = ""
    /\ similarities = <<>>
    /\ step = ""
    /\ parsed = <<>>
    /\ result = <<>>
    /\ search = <<>>
    /\ tried = <<>>
    /\ calls = <<>>
    /\ ret = NoReturn
    /\ call_value = BuildFrame
    /\ \E n \in 0..MaxChunks :
          call_args = <<Texts(TextChunks(n)), DEFAULT_BATCH_SIZE, MAX_RETRIES,
                        TextChunks(n)>>

\* `if len(vectors) == 0: return`: nothing is written
BuildIndexGivesUp ==
    /\ call_value.pc = "done"
    /\ Len(call_value.ret) = 0
    /\ call_value' = [call_value EXCEPT !.pc = "not built"]
    /\ EmbedUnchanged

\* index.add(vectors); write_index; pickle.dump(metadatas)
BuildIndexWrites ==
    /\ call_value.pc = "done"
    /\ Len(call_value.ret) # 0
    /\ call_value' = [call_value EXCEPT
                         !.pc = "built",
                         !.index = call_value.ret,
                         !.metadata = Metadatas(call_args[4])]
    /\ EmbedUnchanged

\* retrieve_chunks_with_threshold: the search returns row idx of the index
\* with its score, then padding; each kept row is read from metadata[idx]
RetrieveRow(idx, score) ==
    /\ call_value.pc \in {"built", "retrieved"}
    /\ call_value.results = <<>>
    /\ LET hits == <<<<score, idx>>, <<0, 0>>>>
           kept == RetrievalLoop(Take(hits, TOP_K_CHUNKS * 2),
                                 CHUNK_SIMILARITY_THRESHOLD, TOP_K_CHUNKS,
                                 None, <<>>)
       IN  call_value' =
              [call_value EXCEPT
                  !.pc = "retrieved",
                  !.results =
                      [j \in 1..Len(kept) |->
                          [chunk |-> call_value.metadata[kept[j]],
                           score |-> score,
                           vector |-> call_value.index[kept[j]]]]]
    /\ EmbedUnchanged

\* the index files are absent: retrieve_chunks_with_threshold returns [], 0.0
RetrieveWithoutIndex ==
    /\ call_value.pc = "not built"
    /\ call_value' = [call_value EXCEPT !.pc = "no index"]
    /\ EmbedUnchanged

NextBuildIndex ==
    \/ EmbedReturns
    \/ EmbedBatch
    \/ EncodeReturns
    \/ EncodeRaises
    \/ BuildIndexGivesUp
    \/ BuildIndexWrites
    \/ \E idx \in 1..Len(call_value.index), score \in RetrievedScores :
          RetrieveRow(idx, score)
    \/ RetrieveWithoutIndex

SpecBuildIndex == InitBuildIndex /\ [][NextBuildIndex]_vars

(***************************************************************************)
(* Claim C27                                                               *)
(***************************************************************************)

\* C27 (as stated): after build_index the i-th vector of the index is the
\* embedding of the text of the i-th metadata entry, also when
\* embed_with_retry skipped a failed batch; hence every chunk that
\* retrieve_chunks_with_threshold returns is the chunk whose own text
\* obtained the similarity score recorded for it.
C27_IndexRowsAlignWithMetadata ==
    call_value.pc \in {"built", "retrieved"} =>
        /\ \A i \in 1..Len(call_value.index) :
              call_value.index[i] = Embedding(call_value.metadata[i].text)
        /\ \A j \in 1..Len(call_value.results) :
              call_value.results[j].vector =
                  Embedding(call_value.results[j].chunk.text)

(***************************************************************************)
(* The scan of _execute_lookup over the fields of one chunk, for one       *)
(* requested field: call_args is <<requested field, search_fields>> and    *)
(* call_value is <<the score of every field, the rows appended>>.          *)
(***************************************************************************)
\* the premise sub-limit fields
SUBLIMIT_FIELDS ==
    <<"maximum_value_kept_as_display_at_during_business_hours_aw_label",
      "maximum_value_kept_as_display_at_during_business_hours_1ar_label",
      "maximum_value_kept_as_display_at_during_business_hours_aws_label",
      "maximum_value_kept_as_display_at_during_after_business_hours_aw_label",
      "maximum_value_kept_as_display_at_during_after_business_hours_aws_label">>

ScanRequested ==
    SeqToSet(SUBLIMIT_FIELDS)
        \cup {"maximum_stock_in_premises_label", "alarm_brand", "hours aw"}

ScanFieldNames ==
    SeqToSet(SUBLIMIT_FIELDS) \cup {"maximum_stock_in_premises_label"}

\* a chunk's fields: one or two of the names, in either order
ScanSearchFields ==
    {<<<<a, "1000">>>> : a \in ScanFieldNames}
        \cup {<<<<ab[1], "1000">>, <<ab[2], "2000">>>> :
                 ab \in {p \in ScanFieldNames \X ScanFieldNames : p[1] # p[2]}}

InitScanCall ==
    /\ conversation_history = <<>>
    /\ appended = <<>>
    /\ mark = 0
    /\ requests = 0
    /\ pc = "idle"
    /\ query = ""
    /\ similarities = <<>>
    /\ step = ""
    /\ parsed = <<>>
    /\ result = <<>>
    /\ search = <<>>
    /\ tried = <<>>
    /\ calls = <<>>
    /\ ret = NoReturn
    /\ call_value = <<>>
    /\ \E requested \in ScanRequested, search_fields \in ScanSearchFields :
          call_args = <<requested, search_fields>>

CallScan ==
    /\ call_value = <<>>
    /\ call_value' =
          <<[k \in 1..Len(call_args[2]) |->
                _field_match_score(call_args[1], call_args[2][k][1])],
            MatchRows("MYJADEQT001", <<call_args[1]>>, call_args[2])>>
    /\ UNCHANGED <<conversation_history, appended, mark, requests, pc, query,
                   similarities, step, parsed, result, search, tried, calls,
                   ret, call_args>>

SpecScanCall == InitScanCall /\ [][CallScan]_vars

(***************************************************************************)
(* Claim C28                                                               *)
(***************************************************************************)
\* the fields of search_fields whose normalised name is the requested one
ExactlyNamed(requested, search_fields) ==
    {k \in 1..Len(search_fields) :
        NormalizeField(search_fields[k][1]) = NormalizeField(requested)}

\* C28 (as stated): an exact name match is the best possible match: every
\* score is at most 100, so when the chunk holds a field whose normalised
\* name equals the requested name, the lookup returns that field and never
\* a different, longer-named one.
C28_ExactMatchIsBest ==
    call_value # <<>> =>
        /\ \A k \in 1..Len(call_value[1]) :
              call_value[1][k] <= EXACT_MATCH_SCORE
        /\ ExactlyNamed(call_args[1], call_args[2]) # {} =>
              /\ Len(call_value[2]) = 1
              /\ NormalizeField(call_value[2][1].field)
                    = NormalizeField(call_args[1])

(***************************************************************************)
(* Step 1 of _execute_entity_lookup over a store that build_index wrote    *)
(* from two flattened chunks: call_args is <<filter_contains, the store>>  *)
(* and call_value is <<the matched quote ids, success of the result>>.     *)
(***************************************************************************)
\* a business_profile chunk as build_index receives it
ProfileChunk(quote_id, user_name, business_name, person_in_charge) ==
    [quote_id |-> quote_id, section |-> "business_profile",
     text |-> "Proposal " \o quote_id \o " - Business Profile",
     fields |-> <<<<"business_name_label", business_name>>,
                  <<"person_in_charge_label", person_in_charge>>>>,
     metadata |-> [risk_location |-> "Johor Bahru, Johor",
                   user_name |-> user_name]]

\* the stores: a fully named record and a record some of whose name values
\* are empty or null in the data
EntityStores ==
    {Metadatas(<<ProfileChunk("MYJADEQT001", "Suresh Kumar",
                               "Secure Pawn Brokers", "Suresh Kumar"),
                 ProfileChunk("MYJADEQT003", user_name, business_name,
                               person_in_charge)>>) :
        user_name \in {"", "Rohan Mehta"},
        business_name \in {"", None, "Mehta Pawn Services"},
        person_in_charge \in {"", "Rohan Mehta"}}

EntityNames ==
    {"Suresh Kumar", "Atlantis Traders", "Mehta", " secure pawn brokers ",
     "Rohan Mehta", "MEHTA PAWN"}

\* the loop of step 1 over the store, from chunk k on: the matched quote ids
RECURSIVE MatchedIn(_, _, _, _)
MatchedIn(store, search_name, k, seen_quotes) ==
    IF k > Len(store) THEN seen_quotes
    ELSE MatchedIn(store, search_name, k + 1,
             IF \/ ~Truthy(store[k].quote_id)
                \/ store[k].quote_id \in SeqToSet(seen_quotes)
                \/ ~EntityFound(store[k], search_name)
             THEN seen_quotes
             ELSE Append(seen_quotes, store[k].quote_id))

InitEntityCall ==
    /\ conversation_history = <<>>
    /\ appended = <<>>
    /\ mark = 0
    /\ requests = 0
    /\ pc = "idle"
    /\ query = ""
    /\ similarities = <<>>
    /\ step = ""
    /\ parsed = <<>>
    /\ result = <<>>
    /\ search = <<>>
    /\ tried = <<>>
    /\ calls = <<>>
    /\ ret = NoReturn
    /\ call_value = <<>>
    /\ \E filter_contains \in EntityNames, store \in EntityStores :
          call_args = <<filter_contains, store>>

\* every matched quote yields at least one row, so the result is a success
\* exactly when some quote is matched
CallEntityMatch ==
    /\ call_value = <<>>
    /\ LET matched_quotes ==
               MatchedIn(call_args[2], Strip(Lower(call_args[1])), 1, <<>>)
       IN  call_value' = <<matched_quotes, matched_quotes # <<>>>>
    /\ UNCHANGED <<conversation_history, appended, mark, requests, pc, query,
                   similarities, step, parsed, result, search, tried, calls,
                   ret, call_args>>

SpecEntityCall == InitEntityCall /\ [][CallEntityMatch]_vars

(***************************************************************************)
(* Claim C29                                                               *)
(***************************************************************************)
\* the owner name, person in charge and business name of a stored chunk
NameValues(chunk) ==
    {chunk.user_name}
        \cup {_get_search_fields(chunk)[k][2] :
                 k \in {i \in 1..Len(_get_search_fields(chunk)) :
                           IsNameField(_get_search_fields(chunk)[i][1])}}

\* the searched name and a non-empty name value contain one another
NamedBy(chunk, search_name) ==
    \E v \in NameValues(chunk) :
        /\ Strip(Lower(v)) # ""
        /\ \/ Contains(Strip(Lower(v)), search_name)
           \/ Contains(search_name, Strip(Lower(v)))

\* C29 (as stated): entity lookup returns data only from records in which
\* the searched name and a non-empty owner-name, person-in-charge or
\* business-name value contain one another; a record is never matched on
\* account of an empty or missing name value, so a name that belongs to no
\* record yields success=false.
C29_MatchedOnlyByNonEmptyNames ==
    call_value # <<>> =>
        LET search_name == Strip(Lower(call_args[1]))
            store == call_args[2]
        IN  /\ \A quote_id \in SeqToSet(call_value[1]) :
                  \E k \in 1..Len(store) :
                      /\ store[k].quote_id = quote_id
                      /\ NamedBy(store[k], search_name)
            /\ (\A k \in 1..Len(store) : ~NamedBy(store[k], search_name))
                  => ~call_value[2]

(***************************************************************************)
(* QueryParser._try_deterministic_count on its own: call_args is <<the     *)
(* question>> and call_value is <<whether a ParsedQuery is returned, the   *)
(* ParsedQuery>>.                                                          *)
(***************************************************************************)
FeatureQuestions ==
    UNION {{"How many proposals have " \o FEATURE_MAP[k][1] \o "?",
            "Number of proposals without " \o FEATURE_MAP[k][1],
            "Which proposals have " \o FEATURE_MAP[k][1] \o "?"} :
              k \in 1..Len(FEATURE_MAP)}

InitCountCall ==
    /\ conversation_history = <<>>
    /\ appended = <<>>
    /\ mark = 0
    /\ requests = 0
    /\ pc = "idle"
    /\ query = ""
    /\ similarities = <<>>
    /\ step = ""
    /\ parsed = <<>>
    /\ result = <<>>
    /\ search = <<>>
    /\ tried = <<>>
    /\ calls = <<>>
    /\ ret = NoReturn
    /\ call_value = <<>>
    /\ \E question \in FeatureQuestions : call_args = <<question>>

CallDeterministicCount ==
    /\ call_value = <<>>
    /\ call_value' =
          IF DeterministicMatch(call_args[1])
          THEN <<TRUE, _try_deterministic_count(call_args[1])>>
          ELSE <<FALSE, <<>>>>
    /\ UNCHANGED <<conversation_history, appended, mark, requests, pc, query,
                   similarities, step, parsed, result, search, tried, calls,
                   ret, call_args>>

SpecCountCall == InitCountCall /\ [][CallDeterministicCount]_vars

(***************************************************************************)
(* Claim C30                                                               *)
(***************************************************************************)
\* the entries of the feature table whose phrase occurs in the question
MatchingPhrases(question) ==
    {k \in 1..Len(FEATURE_MAP) :
        Contains(Strip(Lower(question)), FEATURE_MAP[k][1])}

\* the fields of the longest phrases that occur in the question
LongestPhraseFields(question) ==
    {FEATURE_MAP[k][2] :
        k \in {i \in MatchingPhrases(question) :
                  \A j \in MatchingPhrases(question) :
                      Len(FEATURE_MAP[j][1]) <= Len(FEATURE_MAP[i][1])}}

\* C30 (as stated): when a count question contains several phrases of the
\* feature table, the interceptor selects the field of the longest matching
\* phrase, so every entry of the table is selected by some question; a
\* question about "alarm maintenance" filters on
\* under_maintenance_contract_label, not on do_you_have_alarm_label.
C30_LongestPhraseIsSelected ==
    (call_value # <<>> /\ call_value[1]) =>
        call_value[2].filter_field \in LongestPhraseFields(call_args[1])

====
